---- MODULE Spec2Model ----
(***************************************************************************)
(* Meat Planner (package src/meat_planner): the diet / staging / backup    *)
(* files, the Streamlit session state and the nutrition aggregation.       *)
(*                                                                         *)
(* Five specifications over the same variables:                            *)
(*   Spec      the persistence layer and the page handlers (one action per *)
(*             user interaction, i.e. per script run that changes state);  *)
(*   SpecCalc  the pure functions of NutritionCalculator applied to inputs *)
(*             drawn from bounded sets;                                    *)
(*   SpecObj   Diet, Day and MealPlan as objects on a heap, to tell a copy *)
(*             from a shared reference;                                    *)
(*   SpecData  the operations of DataManager on the catalog and on the     *)
(*             combined document, called in any order;                     *)
(*   SpecTwo   the tracker page used from two browser sessions.            *)
(*                                                                         *)
(* Python values are modelled as follows.                                  *)
(*   dict      a sequence of [k, v] entries in insertion order, keys       *)
(*             distinct (Python dicts and JSON objects keep their order);  *)
(*   list      a sequence;                                                 *)
(*   float     an integer n standing for n / 2^FracBits, every arithmetic  *)
(*             result rounded to nearest, ties to even, to MantBits        *)
(*             significant bits: IEEE 754 binary64 with the significand    *)
(*             and the exponent range scaled down;                         *)
(*   objects   records holding the attributes the class assigns.           *)
(***************************************************************************)
EXTENDS Integers, Sequences, FiniteSets, TLC

VARIABLES
    dietFile,     \* data/dieta.json            (FILES["diet"])
    dietTemp,     \* data/dieta_temp.json       (FILES["diet_temp"])
    legacyTemp,   \* ./dieta_temp.json, the path the diet page removes
    backups,      \* diete_old/: dict  file name -> content
    recapFile,    \* data/recap.json            (FILES["recap"])
    foodsFile,    \* data/foods.json            (FILES["foods"])
    clock,        \* datetime.now() in whole seconds
    ss,           \* st.session_state
    last,         \* what the last interaction was and what it reported
    nOps,         \* number of interactions so far (session starts not counted)
    cFoods,       \* SpecCalc: the catalog handed to NutritionCalculator
    cDay,         \* SpecCalc: a Day under calculation
    cPlan,        \* SpecCalc: a MealPlan under calculation
    cOut,         \* SpecCalc: what the calculator returned
    heap,         \* SpecObj: the Meal and FoodItem objects, by address
    oDiet,        \* SpecObj: a Diet object (its meals dict holds addresses)
    oPlan,        \* SpecObj: a MealPlan object (its days' meals hold addresses)
    expected,     \* SpecData: the foods add_food gave and remove_food has not
                  \* removed since, by name
    peer,         \* SpecTwo: st.session_state of the other browser session
    turns         \* SpecTwo: how often the other browser took over

fileVars == <<dietFile, dietTemp, legacyTemp, backups, recapFile, foodsFile>>
calcVars == <<cFoods, cDay, cPlan, cOut>>
objVars == <<heap, oDiet, oPlan>>
\* what the page handlers of Spec leave alone
idleVars == <<cFoods, cDay, cPlan, cOut, heap, oDiet, oPlan, expected, peer, turns>>
vars == <<dietFile, dietTemp, legacyTemp, backups, recapFile, foodsFile,
          clock, ss, peer, turns, last, nOps, cFoods, cDay, cPlan, cOut,
          heap, oDiet, oPlan, expected>>

----------------------------------------------------------------------------
(* Bounds of the model *)

\* significand width of the float format (binary64: 53)
MantBits == 10
\* fractional bits of the smallest representable step (binary64: 1074)
FracBits == 6
\* longest food-item list of a meal the inputs enumerate
MaxItems == 2
\* interactions per behaviour of Spec
MaxOps == 2
\* the clock runs over 0..MaxClock
MaxClock == 1
\* how often the script runs pass from one browser session to the other
MaxTurns == 1
\* add_day / reset_all_to_diet calls that build a plan of SpecCalc
MaxPlanEdits == 2

(* Program constants *)

\* APP_CONFIG["total_days"]
total_days == 35
\* weeks = 5 in calculate_weekly_recap
weeks == 5
\* days_per_week = 7 in calculate_weekly_recap
days_per_week == 7

----------------------------------------------------------------------------
(* Python float arithmetic *)

RECURSIVE Pow2(_)
Pow2(k) == IF k = 0 THEN 1 ELSE 2 * Pow2(k - 1)

\* 2^FracBits steps make 1.0
Scale == Pow2(FracBits)
\* the first magnitude at which neighbouring floats are two steps apart
MantLimit == Pow2(MantBits)

\* distance between neighbouring floats at magnitude q (in steps of 1/Scale)
RECURSIVE ulp(_)
ulp(q) == IF q < MantLimit THEN 1 ELSE 2 * ulp(q \div 2)

\* the float nearest to num/den steps, ties to even; den > 0
fl(num, den) ==
    LET a == IF num < 0 THEN 0 - num ELSE num
        s == ulp(a \div den)
        k == a \div (den * s)
        r == a - k * den * s
        up == \/ 2 * r > den * s
              \/ 2 * r = den * s /\ k % 2 = 1
        m == (IF up THEN k + 1 ELSE k) * s
    IN  IF num < 0 THEN 0 - m ELSE m

\* x + y
fadd(x, y) == fl(x + y, 1)
\* x * y
fmul(x, y) == fl(x * y, Scale)
\* x / y, y # 0
fdiv(x, y) == IF y < 0 THEN fl((0 - x) * Scale, 0 - y) ELSE fl(x * Scale, y)

\* the float of the integer literal i
Num(i) == fl(i * Scale, 1)
\* the float of the decimal literal n/10
Dec(n) == fl(n * Scale, 10)
\* the literal 100
Hundred == Num(100)

----------------------------------------------------------------------------
(* Python dict: entries [k, v] in insertion order *)

DictKeys(d) == [i \in 1..Len(d) |-> d[i].k]
DictHas(d, key) == \E i \in 1..Len(d) : d[i].k = key
DictIdx(d, key) == CHOOSE i \in 1..Len(d) : d[i].k = key
\* d[key]
DictGet(d, key) == d[DictIdx(d, key)].v
\* d[key] = val
DictSet(d, key, val) ==
    IF DictHas(d, key)
    THEN [d EXCEPT ![DictIdx(d, key)] = [k |-> key, v |-> val]]
    ELSE Append(d, [k |-> key, v |-> val])
\* {key: f(key, value) for key, value in d.items()}
DictMap(d, f(_, _)) == [i \in 1..Len(d) |-> [k |-> d[i].k, v |-> f(d[i].k, d[i].v)]]

----------------------------------------------------------------------------
(* Python values as json.load returns them and json.dump writes them: t is   *)
(* the type, and the payload has a field of its own per type, so that two   *)
(* values of different types are unequal and never compared field by field  *)

PyDict(entries) == [t |-> "dict", x |-> entries]
PyList(elems) == [t |-> "list", x |-> elems]
PyStr(s) == [t |-> "str", s |-> s]
PyNum(n) == [t |-> "num", n |-> n]
PyNone == [t |-> "None"]

\* a call that returned v / a call that raised
Ok(v) == [ok |-> TRUE, v |-> v]
Raised == [ok |-> FALSE, v |-> <<>>]
\* the value a call returned, as a set: empty when it raised. A name bound over
\* such a set stands for the value itself
Returned(r) == IF r.ok THEN {r.v} ELSE {}
\* the element of a set of one element
Only(S) == CHOOSE e \in S : TRUE

\* `for item in data`: a list yields its elements, a dict its keys, a str its
\* characters (one str stands for them: all that follows is that subscripting
\* it with a str raises); anything else is not iterable
Iterate(data) ==
    CASE data.t = "list" -> Ok(data.x)
      [] data.t = "dict" -> Ok([i \in 1..Len(data.x) |-> PyStr(data.x[i].k)])
      [] data.t = "str" -> Ok(IF data.s = "" THEN <<>> ELSE <<PyStr(data.s)>>)
      [] OTHER -> Raised

\* data[key] with a str key: KeyError / TypeError unless data is a dict holding it
Subscript(data, key) ==
    IF data.t = "dict" /\ DictHas(data.x, key) THEN Ok(DictGet(data.x, key)) ELSE Raised

\* data.get(key, default) of a dict
Get(data, key, default) ==
    IF DictHas(data.x, key) THEN DictGet(data.x, key) ELSE default

----------------------------------------------------------------------------
(* models.py *)

FoodItem(alimento, quantita) == [alimento |-> alimento, quantita |-> quantita]

FoodItem_from_dict(data) ==
    LET a == Subscript(data, "alimento")
        q == Subscript(data, "quantita")
    IN  IF a.ok /\ q.ok THEN Ok(FoodItem(a.v, q.v)) ELSE Raised

FoodItem_to_dict(self) ==
    PyDict(<<[k |-> "alimento", v |-> self.alimento],
             [k |-> "quantita", v |-> self.quantita]>>)

NUTRITION_KEYS == <<"kcal", "carbs", "protein", "fat", "fiber">>

NutritionValues(kcal, carbs, protein, fat, fiber) ==
    [kcal |-> kcal, carbs |-> carbs, protein |-> protein, fat |-> fat, fiber |-> fiber]

\* NutritionValues()
NutritionValues0 == NutritionValues(0, 0, 0, 0, 0)

NutritionValues_from_dict(data) ==
    NutritionValues(Get(data, "kcal", PyNum(0)).n,
                    Get(data, "carbs", PyNum(0)).n,
                    Get(data, "protein", PyNum(0)).n,
                    Get(data, "fat", PyNum(0)).n,
                    Get(data, "fiber", PyNum(0)).n)

NutritionValues_to_dict(self) ==
    PyDict(<<[k |-> "kcal", v |-> PyNum(self.kcal)],
             [k |-> "carbs", v |-> PyNum(self.carbs)],
             [k |-> "protein", v |-> PyNum(self.protein)],
             [k |-> "fat", v |-> PyNum(self.fat)],
             [k |-> "fiber", v |-> PyNum(self.fiber)]>>)

\* an addition that sums the energy only
add_kcal_only(self, other) ==
    NutritionValues(fadd(self.kcal, other.kcal),
                    self.carbs, self.protein, self.fat, self.fiber)

\* NutritionValues.add / __add__
add(self, other) ==
    NutritionValues(fadd(self.kcal, other.kcal),
                    fadd(self.carbs, other.carbs),
                    fadd(self.protein, other.protein),
                    fadd(self.fat, other.fat),
                    fadd(self.fiber, other.fiber))

Meal(name, food_items) == [name |-> name, food_items |-> food_items]

\* a Meal.from_dict that collects the items last to first
Meal_from_dict_reversed(name, data) ==
    LET it == Iterate(data)
    IN  IF it.ok /\ \A i \in 1..Len(it.v) : FoodItem_from_dict(it.v[i]).ok
        THEN Ok(Meal(name, [i \in 1..Len(it.v) |->
                               FoodItem_from_dict(it.v[Len(it.v) + 1 - i]).v]))
        ELSE Raised

\* Meal.from_dict

Meal_from_dict(name, data) ==
    LET it == Iterate(data)
    IN  IF it.ok /\ \A i \in 1..Len(it.v) : FoodItem_from_dict(it.v[i]).ok
        THEN Ok(Meal(name, [i \in 1..Len(it.v) |-> FoodItem_from_dict(it.v[i]).v]))
        ELSE Raised

Meal_to_dict(self) ==
    PyList([i \in 1..Len(self.food_items) |-> FoodItem_to_dict(self.food_items[i])])

\* Meal.add_food_item
add_food_item(self, food_item) ==
    [self EXCEPT !.food_items = Append(@, food_item)]

\* del food_items[index] / food_items.pop(index), indices from 0
remove_food_item(self, index) ==
    IF 0 <= index /\ index < Len(self.food_items)
    THEN [self EXCEPT !.food_items =
              [i \in 1..(Len(@) - 1) |-> IF i <= index THEN @[i] ELSE @[i + 1]]]
    ELSE self

\* Meal.update_food_item, indices from 0
update_food_item(self, index, food_item) ==
    IF 0 <= index /\ index < Len(self.food_items)
    THEN [self EXCEPT !.food_items[index + 1] = food_item]
    ELSE self

\* the dict of Meal objects Diet.from_dict and Day.from_dict build
MealsFromDict(data) ==
    IF \A i \in 1..Len(data.x) : Meal_from_dict(data.x[i].k, data.x[i].v).ok
    THEN Ok([i \in 1..Len(data.x) |->
                [k |-> data.x[i].k, v |-> Meal_from_dict(data.x[i].k, data.x[i].v).v]])
    ELSE Raised

\* {meal_name: meal.to_dict() for meal_name, meal in self.meals.items()}
MealsToDict(meals) ==
    PyDict([i \in 1..Len(meals) |-> [k |-> meals[i].k, v |-> Meal_to_dict(meals[i].v)]])

Diet(meals) == [meals |-> meals]

Diet_from_dict(data) ==
    IF data.t = "dict" /\ MealsFromDict(data).ok
    THEN Ok(Diet(MealsFromDict(data).v))
    ELSE Raised

Diet_to_dict(self) == MealsToDict(self.meals)

\* Diet.copy: new Meal and FoodItem objects with the same values
Diet_copy(self) ==
    Diet([i \in 1..Len(self.meals) |->
            [k |-> self.meals[i].k,
             v |-> Meal(self.meals[i].k,
                        [j \in 1..Len(self.meals[i].v.food_items) |->
                            FoodItem(self.meals[i].v.food_items[j].alimento,
                                     self.meals[i].v.food_items[j].quantita)])]])

Day(name, meals) == [name |-> name, meals |-> meals]

Day_from_dict(name, data) ==
    IF data.t = "dict" /\ MealsFromDict(data).ok
    THEN Ok(Day(name, MealsFromDict(data).v))
    ELSE Raised

Day_to_dict(self) == MealsToDict(self.meals)

\* Day.reset_to_diet
reset_to_diet(self, diet) == [self EXCEPT !.meals = Diet_copy(diet).meals]

MealPlan(days) == [days |-> days]

MealPlan_from_dict(data) ==
    IF data.t # "dict" THEN Raised
    ELSE IF \A i \in 1..Len(data.x) : Day_from_dict(data.x[i].k, data.x[i].v).ok
    THEN Ok(MealPlan([i \in 1..Len(data.x) |->
                [k |-> data.x[i].k, v |-> Day_from_dict(data.x[i].k, data.x[i].v).v]]))
    ELSE Raised

MealPlan_to_dict(self) ==
    PyDict([i \in 1..Len(self.days) |->
              [k |-> self.days[i].k, v |-> Day_to_dict(self.days[i].v)]])

\* MealPlan.get_day: the Day, or None
get_day(self, day_name) ==
    IF DictHas(self.days, day_name) THEN Ok(DictGet(self.days, day_name)) ELSE Raised

\* MealPlan.add_day
add_day(self, day) == [self EXCEPT !.days = DictSet(@, day.name, day)]

\* MealPlan.reset_all_to_diet. The loop over day_names, in closed form: a day
\* the plan already has keeps its place in the dict and is reset, a day it
\* lacks is appended, in day_names order (day_names holds no name twice)
reset_all_to_diet(self, diet, day_names) ==
    LET old == self.days
        named(n) == \E i \in 1..Len(day_names) : day_names[i] = n
        lacking(n) == ~DictHas(old, n)
        fresh == SelectSeq(day_names, lacking)
    IN  [self EXCEPT !.days =
            [i \in 1..Len(old) |->
                IF named(old[i].k)
                THEN [k |-> old[i].k, v |-> reset_to_diet(old[i].v, diet)]
                ELSE old[i]]
            \o [i \in 1..Len(fresh) |->
                [k |-> fresh[i], v |-> reset_to_diet(Day(fresh[i], <<>>), diet)]]]

\* f"Giorno_{n}"
DayId(n) == "Giorno_" \o ToString(n)

\* [f"Giorno_{i + 1}" for i in range(APP_CONFIG["total_days"])]
DayNames == [i \in 1..total_days |-> DayId(i)]

----------------------------------------------------------------------------
(* nutrition_calculator.py: NutritionCalculator(foods_data) *)

\* calculate_food_item_nutrition with the quantity in grams taken as the
\* factor (the division by 100 forgotten)
item_nutrition_per_gram(foods_data, food_item) ==
    LET food_data == Get(foods_data, food_item.alimento.s, PyNone)
    IN  IF food_data.t = "None" \/ food_data.x = <<>>
        THEN NutritionValues0
        ELSE LET quantity_factor == food_item.quantita.n
             IN  NutritionValues(
                     fmul(Get(food_data, "kcal", PyNum(0)).n, quantity_factor),
                     fmul(Get(food_data, "carbs", PyNum(0)).n, quantity_factor),
                     fmul(Get(food_data, "protein", PyNum(0)).n, quantity_factor),
                     fmul(Get(food_data, "fat", PyNum(0)).n, quantity_factor),
                     fmul(Get(food_data, "fiber", PyNum(0)).n, quantity_factor))

\* calculate_food_item_nutrition: an unknown food (or an empty entry) warns and
\* returns NutritionValues()
calculate_food_item_nutrition(foods_data, food_item) ==
    LET food_data == Get(foods_data, food_item.alimento.s, PyNone)
    IN  IF food_data.t = "None" \/ food_data.x = <<>>
        THEN NutritionValues0
        ELSE LET quantity_factor == fdiv(food_item.quantita.n, Hundred)
             IN  NutritionValues(
                     fmul(Get(food_data, "kcal", PyNum(0)).n, quantity_factor),
                     fmul(Get(food_data, "carbs", PyNum(0)).n, quantity_factor),
                     fmul(Get(food_data, "protein", PyNum(0)).n, quantity_factor),
                     fmul(Get(food_data, "fat", PyNum(0)).n, quantity_factor),
                     fmul(Get(food_data, "fiber", PyNum(0)).n, quantity_factor))

RECURSIVE food_items_loop(_, _, _, _)
food_items_loop(foods_data, food_items, i, total) ==
    IF i > Len(food_items) THEN total
    ELSE food_items_loop(foods_data, food_items, i + 1,
             add(total, calculate_food_item_nutrition(foods_data, food_items[i])))

calculate_food_items_nutrition(foods_data, food_items) ==
    food_items_loop(foods_data, food_items, 1, NutritionValues0)

calculate_meal_nutrition(foods_data, meal) ==
    calculate_food_items_nutrition(foods_data, meal.food_items)

RECURSIVE meals_loop(_, _, _, _)
meals_loop(foods_data, meals, i, total) ==
    IF i > Len(meals) THEN total
    ELSE meals_loop(foods_data, meals, i + 1,
             add(total, calculate_meal_nutrition(foods_data, meals[i].v)))

calculate_diet_nutrition(foods_data, diet) ==
    meals_loop(foods_data, diet.meals, 1, NutritionValues0)

\* calculate_day_nutrition with the first meal left out of the loop
day_nutrition_skip_first(foods_data, day) ==
    meals_loop(foods_data, day.meals, 2, NutritionValues0)

calculate_day_nutrition(foods_data, day) ==
    meals_loop(foods_data, day.meals, 1, NutritionValues0)

\* dict  day name -> NutritionValues
calculate_meal_plan_nutrition(foods_data, meal_plan) ==
    [i \in 1..Len(meal_plan.days) |->
        [k |-> meal_plan.days[i].k,
         v |-> calculate_day_nutrition(foods_data, meal_plan.days[i].v)]]

\* the first loop of calculate_weekly_recap: recap[day_name] for every day
\* name, in day_names order (day_names holds no name twice)
recap_days(daily_nutrition, day_names) ==
    [i \in 1..Len(day_names) |->
        [k |-> day_names[i],
         v |-> IF DictHas(daily_nutrition, day_names[i])
               THEN NutritionValues_to_dict(DictGet(daily_nutrition, day_names[i]))
               ELSE NutritionValues_to_dict(NutritionValues0)]]

\* week_loop with the day numbers one too low (days 0..6 for week 1)
RECURSIVE week_loop_off_by_one(_, _, _, _)
week_loop_off_by_one(recap, week, day_idx, week_total) ==
    IF day_idx >= days_per_week THEN week_total
    ELSE LET day_number == (week - 1) * days_per_week + day_idx
             day_id == DayId(day_number)
         IN  week_loop_off_by_one(recap, week, day_idx + 1,
                 IF DictHas(recap, day_id)
                 THEN add(week_total, NutritionValues_from_dict(DictGet(recap, day_id)))
                 ELSE week_total)

\* the inner loop: week_total over day_idx in range(days_per_week)
RECURSIVE week_loop(_, _, _, _)
week_loop(recap, week, day_idx, week_total) ==
    IF day_idx >= days_per_week THEN week_total
    ELSE LET day_number == (week - 1) * days_per_week + day_idx + 1
             day_id == DayId(day_number)
         IN  week_loop(recap, week, day_idx + 1,
                 IF DictHas(recap, day_id)
                 THEN add(week_total, NutritionValues_from_dict(DictGet(recap, day_id)))
                 ELSE week_total)

\* week_days of one week
week_days(week) ==
    [j \in 1..days_per_week |-> PyStr(DayId((week - 1) * days_per_week + (j - 1) + 1))]

\* recap["settimane"]
settimane(recap) ==
    PyDict([week \in 1..weeks |->
        [k |-> "settimana_" \o ToString(week),
         v |-> PyDict(<<[k |-> "totali",
                         v |-> NutritionValues_to_dict(
                                   week_loop(recap, week, 0, NutritionValues0))],
                        [k |-> "giorni", v |-> PyList(week_days(week))]>>)]])

calculate_weekly_recap(foods_data, meal_plan, day_names) ==
    LET daily_nutrition == calculate_meal_plan_nutrition(foods_data, meal_plan)
        recap == recap_days(daily_nutrition, day_names)
    IN  PyDict(DictSet(recap, "settimane", settimane(recap)))

\* a variation that keeps the sign of the quotient
variation_signed(actual, target) ==
    IF target = 0
    THEN (IF actual = 0 THEN 0 ELSE Hundred)
    ELSE fmul(fdiv(fadd(actual, 0 - target), target), Hundred)

\* NutritionCalculator.calculate_variation_percentage
calculate_variation_percentage(actual, target) ==
    IF target = 0
    THEN (IF actual = 0 THEN 0 ELSE Hundred)
    ELSE LET q == fdiv(fadd(actual, 0 - target), target)
         IN  fmul(IF q < 0 THEN 0 - q ELSE q, Hundred)

\* a classification whose bands leave out their upper boundary
color_class_strict(variation_percentage) ==
    IF variation_percentage < Num(10) THEN "green"
    ELSE IF variation_percentage < Num(25) THEN "yellow"
    ELSE "red"

\* NutritionCalculator.get_variation_color_class: "green" for the check
\* mark, "yellow" for the warning sign, "red" for the cross, as the comments
\* of the source name them
get_variation_color_class(variation_percentage) ==
    IF variation_percentage <= Num(10) THEN "green"
    ELSE IF variation_percentage <= Num(25) THEN "yellow"
    ELSE "red"

----------------------------------------------------------------------------
(* Inputs *)

\* an entry of foods.json as Food.to_dict writes it
FoodEntry(kcal, carbs, protein, fat, fiber) ==
    PyDict(<<[k |-> "kcal", v |-> PyNum(kcal)],
             [k |-> "carbs", v |-> PyNum(carbs)],
             [k |-> "protein", v |-> PyNum(protein)],
             [k |-> "fat", v |-> PyNum(fat)],
             [k |-> "fiber", v |-> PyNum(fiber)],
             [k |-> "tipologia", v |-> PyList(<<>>)]>>)

\* chicken breast: kcal 165, carbs 0, protein 31, fat 3.6, fiber 0
Pollo == FoodEntry(Num(165), Num(0), Num(31), Dec(36), Num(0))
\* rice: kcal 130, carbs 28.2, protein 2.7, fat 0.3, fiber 0.4
Riso == FoodEntry(Num(130), Dec(282), Dec(27), Dec(3), Dec(4))

CatalogFull == PyDict(<<[k |-> "Pollo", v |-> Pollo], [k |-> "Riso", v |-> Riso]>>)
CatalogPollo == PyDict(<<[k |-> "Pollo", v |-> Pollo]>>)
CatalogEmpty == PyDict(<<>>)
Catalogs == {CatalogFull, CatalogPollo, CatalogEmpty}

\* "Tofu" is in no catalog
Item(alimento, grams) == FoodItem(PyStr(alimento), PyNum(Num(grams)))
CalcItems == {Item("Pollo", 150), Item("Riso", 30), Item("Tofu", 100)}

ItemLists == UNION {[1..n -> CalcItems] : n \in 0..MaxItems}

MealNames == <<"Colazione", "Pranzo">>

\* a Day / Diet meals dict with the two meals
TwoMeals(a, b) ==
    <<[k |-> "Colazione", v |-> Meal("Colazione", a)],
      [k |-> "Pranzo", v |-> Meal("Pranzo", b)]>>

\* the day without meals, Day(name)
NoMeals == Day("Giorno_1", <<>>)

CalcDays == {Day("Giorno_1", TwoMeals(a, b)) : a, b \in ItemLists} \cup {NoMeals}

\* the diets and the day numbers the plans of SpecCalc are built from
PlanDiets == {Diet(TwoMeals(<<Item("Pollo", 150)>>, <<Item("Riso", 30)>>)),
              Diet(TwoMeals(<<Item("Riso", 30), Item("Pollo", 150)>>, <<>>))}
PlanDayNumbers == {7, 8, 35}

----------------------------------------------------------------------------
(* Files *)

\* a path that does not exist (os.path.exists is False, open raises
\* FileNotFoundError)
Absent == [st |-> "absent", data |-> PyNone]
\* a file holding the JSON text json.dump writes for data
JsonFile(data) == [st |-> "json", data |-> data]
\* a file open(filepath, "w") has truncated and json.dump has not finished
\* writing: json.load rejects it
Truncated == [st |-> "corrupt", data |-> PyNone]

\* os.path.exists
exists(file) == file.st # "absent"

\* json.load / json.loads of the content of a file
json_loads(content) ==
    IF content.st = "json" THEN Ok(content.data) ELSE Raised

\* a load that opens the file without asking whether it exists
load_json_file_strict(file) == json_loads(file)

\* DataManager.load_json_file: {} for a missing file, ValueError for a file
\* that is not JSON
load_json_file(file) ==
    IF file.st = "absent" THEN Ok(PyDict(<<>>)) ELSE json_loads(file)

Food(name, kcal, carbs, protein, fat, fiber, tipologia) ==
    [name |-> name, kcal |-> kcal, carbs |-> carbs, protein |-> protein,
     fat |-> fat, fiber |-> fiber, tipologia |-> tipologia]

Food_from_dict(name, data) ==
    Food(name, Get(data, "kcal", PyNum(0)), Get(data, "carbs", PyNum(0)),
         Get(data, "protein", PyNum(0)), Get(data, "fat", PyNum(0)),
         Get(data, "fiber", PyNum(0)), Get(data, "tipologia", PyList(<<>>)))

Food_to_dict(self) ==
    PyDict(<<[k |-> "kcal", v |-> self.kcal],
             [k |-> "carbs", v |-> self.carbs],
             [k |-> "protein", v |-> self.protein],
             [k |-> "fat", v |-> self.fat],
             [k |-> "fiber", v |-> self.fiber],
             [k |-> "tipologia", v |-> self.tipologia]>>)

\* DataManager.get_foods_data_dict: load_foods, then every Food back to a dict
\* (foods.json holds a dict of dicts)
get_foods_data_dict(file) ==
    LET foods_data == load_json_file(file).v.x
    IN  PyDict([i \in 1..Len(foods_data) |->
                  [k |-> foods_data[i].k,
                   v |-> Food_to_dict(Food_from_dict(foods_data[i].k, foods_data[i].v))]])

\* the food names of the model in the order sorted() puts them ("-----" is the
\* protected entry of can_remove_food)
Alphabetical == <<"-----", "Pollo", "Riso", "Tofu">>

\* sorted(foods_data.keys())
food_names(foods_data) ==
    LET known(n) == DictHas(foods_data.x, n)
    IN  SelectSeq(Alphabetical, known)

\* DataManager.load_diet
load_diet(dFile) ==
    LET diet_data == load_json_file(dFile)
    IN  IF diet_data.ok THEN Diet_from_dict(diet_data.v) ELSE Raised

\* a load that never looks at the staging file
load_diet_temp_committed(dTemp, dFile) ==
    LET diet == load_diet(dFile)
    IN  IF diet.ok THEN Ok([diet |-> diet.v, is_temp |-> FALSE]) ELSE Raised

\* a load that falls back to the committed diet when the staging file cannot
\* be read
load_diet_temp_fallback(dTemp, dFile) ==
    LET staged == load_json_file(dTemp)
        diet == IF exists(dTemp) /\ staged.ok
                THEN Diet_from_dict(staged.v)
                ELSE load_diet(dFile)
    IN  IF diet.ok THEN Ok([diet |-> diet.v, is_temp |-> exists(dTemp) /\ staged.ok]) ELSE Raised

\* DataManager.load_diet_temp: (diet, is_temp)
load_diet_temp(dTemp, dFile) ==
    LET staged == load_json_file(dTemp)
        diet == IF exists(dTemp)
                THEN (IF staged.ok THEN Diet_from_dict(staged.v) ELSE Raised)
                ELSE load_diet(dFile)
    IN  IF diet.ok THEN Ok([diet |-> diet.v, is_temp |-> exists(dTemp)]) ELSE Raised

\* DataManager.save_diet_temp / save_diet: what save_json_file leaves in the file
save_diet(diet) == JsonFile(Diet_to_dict(diet))

\* datetime.now().strftime("%Y%m%d_%H%M%S"): the clock counts whole seconds,
\* which is all the format prints
strftime(now) == ToString(now)

\* f"dieta_{timestamp}.json"
backup_filename(now) == "dieta_" \o strftime(now) \o ".json"

\* the three things the commit and the upload touch
Files(dFile, dTemp, bk) == [diet |-> dFile, temp |-> dTemp, backups |-> bk]

\* DataManager.backup_current_diet: shutil.copy2 of the diet file to the
\* timestamp-named path (an existing file of that name is written over);
\* raises when the diet file is missing or the copy fails
backup_current_diet(files, now, fault) ==
    IF ~exists(files.diet) \/ fault = "backup"
    THEN [ok |-> FALSE, msg |-> "backup", files |-> files]
    ELSE [ok |-> TRUE, msg |-> backup_filename(now),
          files |-> [files EXCEPT !.backups = DictSet(@, backup_filename(now), files.diet)]]

\* confirm_diet_changes without the look for the staging file: the backup is
\* made and the move of the missing file raises
confirm_unguarded(files, now, fault) ==
    LET b == backup_current_diet(files, now, fault)
    IN  IF ~b.ok
        THEN [ok |-> FALSE, msg |-> b.msg, files |-> files]
        ELSE IF fault = "move" \/ ~exists(files.temp)
        THEN [ok |-> FALSE, msg |-> "move", files |-> b.files]
        ELSE [ok |-> TRUE, msg |-> b.msg,
              files |-> [b.files EXCEPT !.diet = files.temp, !.temp = Absent]]

\* confirm_diet_changes with the move left out after the backup
confirm_without_move(files, now, fault) ==
    LET b == backup_current_diet(files, now, fault)
    IN  IF ~exists(files.temp) \/ ~b.ok
        THEN [ok |-> FALSE, msg |-> "failed", files |-> files]
        ELSE [ok |-> TRUE, msg |-> b.msg, files |-> b.files]

\* DataManager.confirm_diet_changes: (success, backup_filename or message) and
\* the files it leaves. shutil.move within data/ is os.rename: it replaces the
\* diet file or raises with nothing changed
confirm_diet_changes(files, now, fault) ==
    LET b == backup_current_diet(files, now, fault)
    IN  IF ~exists(files.temp)
        THEN [ok |-> FALSE, msg |-> "Nessuna modifica da confermare", files |-> files]
        ELSE IF ~b.ok
        THEN [ok |-> FALSE, msg |-> b.msg, files |-> files]
        ELSE IF fault = "move"
        THEN [ok |-> FALSE, msg |-> "move", files |-> b.files]
        ELSE [ok |-> TRUE, msg |-> b.msg,
              files |-> [b.files EXCEPT !.diet = files.temp, !.temp = Absent]]

\* load_new_diet_from_file with the staging file left in place
upload_keeps_temp(files, uploaded, now, fault) ==
    LET diet_data == json_loads(uploaded)
        new_diet == IF diet_data.ok THEN Diet_from_dict(diet_data.v) ELSE Raised
        b == backup_current_diet(files, now, fault)
    IN  IF ~new_diet.ok \/ ~b.ok \/ fault \in {"open", "write"}
        THEN [ok |-> FALSE, msg |-> "failed", new_diet |-> PyNone, files |-> files]
        ELSE [ok |-> TRUE, msg |-> b.msg, new_diet |-> new_diet.v,
              files |-> [b.files EXCEPT !.diet = save_diet(new_diet.v)]]

\* DataManager.load_new_diet_from_file: (success, backup_filename or message,
\* new_diet) and the files it leaves. save_json_file opens the diet file with
\* mode "w", which empties it, and then writes: an error of open leaves the
\* file as it was, an error while writing leaves it cut short
load_new_diet_from_file(files, uploaded, now, fault) ==
    LET diet_data == json_loads(uploaded)
        new_diet == IF diet_data.ok THEN Diet_from_dict(diet_data.v) ELSE Raised
        b == backup_current_diet(files, now, fault)
    IN  IF ~new_diet.ok
        THEN [ok |-> FALSE, msg |-> "parse", new_diet |-> PyNone, files |-> files]
        ELSE IF ~b.ok
        THEN [ok |-> FALSE, msg |-> b.msg, new_diet |-> PyNone, files |-> files]
        ELSE IF fault = "open"
        THEN [ok |-> FALSE, msg |-> "open", new_diet |-> PyNone, files |-> b.files]
        ELSE IF fault = "write"
        THEN [ok |-> FALSE, msg |-> "write", new_diet |-> PyNone,
              files |-> [b.files EXCEPT !.diet = Truncated]]
        ELSE [ok |-> TRUE, msg |-> b.msg, new_diet |-> new_diet.v,
              files |-> [b.files EXCEPT !.diet = save_diet(new_diet.v), !.temp = Absent]]

\* DataManager.load_complete_data: the document of recap.json, or None
load_complete_data(rFile) ==
    IF exists(rFile) THEN load_json_file(rFile) ELSE Ok(PyNone)

\* DataManager.save_complete_data: what it leaves in recap.json
save_complete_data(meal_plan, recap_data) ==
    JsonFile(PyDict(<<[k |-> "meal_plan", v |-> MealPlan_to_dict(meal_plan)],
                      [k |-> "recap", v |-> recap_data]>>))

\* DataManager.initialize_meal_plan_from_diet
initialize_meal_plan_from_diet(diet, day_names) ==
    reset_all_to_diet(MealPlan(<<>>), diet, day_names)

\* DataManager.load_meals_list: data/meals.json holds the configured meal names
load_meals_list == PyList([i \in 1..Len(MealNames) |-> PyStr(MealNames[i])])

----------------------------------------------------------------------------
(* SpecCalc: the calculator applied to a Day (cDay) and to a MealPlan (cPlan) *)

Nothing == [fn |-> "none"]

\* every food item of every meal of the day, as one list
RECURSIVE AllItems(_, _)
AllItems(meals, i) ==
    IF i > Len(meals) THEN <<>> ELSE meals[i].v.food_items \o AllItems(meals, i + 1)

\* the variables of a specification that does not use them
mainIdle ==
    /\ dietFile = <<>> /\ dietTemp = <<>> /\ legacyTemp = <<>> /\ backups = <<>>
    /\ recapFile = <<>> /\ foodsFile = <<>> /\ clock = 0 /\ ss = <<>>
    /\ peer = <<>> /\ turns = 0
    /\ last = <<>> /\ nOps = 0
filesIdle ==
    /\ dietFile = <<>> /\ dietTemp = <<>> /\ legacyTemp = <<>> /\ backups = <<>>
    /\ recapFile = <<>> /\ foodsFile = <<>> /\ clock = 0 /\ ss = <<>>
    /\ peer = <<>> /\ turns = 0
calcIdle == cFoods = <<>> /\ cDay = <<>> /\ cPlan = <<>> /\ cOut = <<>>
objIdle == heap = <<>> /\ oDiet = <<>> /\ oPlan = <<>>

mainVars == <<dietFile, dietTemp, legacyTemp, backups, recapFile, foodsFile,
              clock, ss, peer, turns, last, nOps>>

InitCalc ==
    /\ mainIdle /\ objIdle /\ expected = <<>>
    /\ cFoods \in Catalogs
    /\ cDay \in CalcDays
    /\ cPlan = MealPlan(<<>>)
    /\ cOut = Nothing

\* calculate_food_items_nutrition of every meal, calculate_day_nutrition of the
\* day, and calculate_food_items_nutrition of all its items as one list
CalcDayNutrition ==
    /\ cOut.fn # "day"
    /\ cOut' = [fn |-> "day",
                meals |-> [i \in 1..Len(cDay.meals) |->
                    calculate_food_items_nutrition(cFoods, cDay.meals[i].v.food_items)],
                day |-> calculate_day_nutrition(cFoods, cDay),
                direct |-> calculate_food_items_nutrition(cFoods, AllItems(cDay.meals, 1))]
    /\ UNCHANGED <<cFoods, cDay, cPlan>>
    /\ UNCHANGED <<mainVars, objVars, expected>>

\* the plans are built from the initial states of the day without meals, so
\* that the days and the plans enumerated do not multiply; nOps counts the
\* calls that built the plan
CalcResetAll ==
    /\ cDay = NoMeals
    /\ nOps < MaxPlanEdits
    /\ \E diet \in PlanDiets :
           cPlan' = reset_all_to_diet(cPlan, diet, DayNames)
    /\ cOut' = Nothing
    /\ nOps' = nOps + 1
    /\ UNCHANGED <<cFoods, cDay>>
    /\ UNCHANGED <<fileVars, clock, ss, peer, turns, last, objVars, expected>>

CalcAddDay ==
    /\ cDay = NoMeals
    /\ nOps < MaxPlanEdits
    /\ \E n \in PlanDayNumbers, diet \in PlanDiets :
           cPlan' = add_day(cPlan, Day(DayId(n), diet.meals))
    /\ cOut' = Nothing
    /\ nOps' = nOps + 1
    /\ UNCHANGED <<cFoods, cDay>>
    /\ UNCHANGED <<fileVars, clock, ss, peer, turns, last, objVars, expected>>

CalcWeeklyRecap ==
    /\ cDay = NoMeals
    /\ cOut.fn # "recap"
    /\ cOut' = [fn |-> "recap",
                daily |-> calculate_meal_plan_nutrition(cFoods, cPlan),
                recap |-> calculate_weekly_recap(cFoods, cPlan, DayNames)]
    /\ UNCHANGED <<cFoods, cDay, cPlan>>
    /\ UNCHANGED <<mainVars, objVars, expected>>

\* the float after x > 0
NextUp(x) == x + ulp(x)

\* the values the day grid compares: a day's kcal and the diet's kcal, among
\* them zero, equal values and a negative total (a diet with a negative
\* quantita)
Kcals == {0, Num(75), Num(90), Num(100), Num(110), Dec(2475), Num(2000), 0 - Num(100)}

\* variation percentages: the two boundaries, their neighbours, the ends
Percentages ==
    {0, Num(10) - 1, Num(10), NextUp(Num(10)), Num(25) - ulp(Num(25) - 1), Num(25),
     NextUp(Num(25)), Hundred, 0 - Num(5)}

\* the nutrition values added: those of single food items of the catalog
AddItems == CalcItems \cup {Item("Pollo", 1000), Item("Riso", 1)}
Addends(foods_data) ==
    {calculate_food_item_nutrition(foods_data, food_item) : food_item \in AddItems}
        \cup {NutritionValues0}

\* the pure functions below are applied in the states without a day and
\* without a plan, so that their inputs do not multiply with the plans

\* render_day_grid: the variation of a day's kcal against the diet's
CalcVariation ==
    /\ cDay = NoMeals /\ cPlan = MealPlan(<<>>)
    /\ \E actual \in Kcals, target \in Kcals :
           cOut' = [fn |-> "variation", actual |-> actual, target |-> target,
                    v |-> calculate_variation_percentage(actual, target)]
    /\ UNCHANGED <<cFoods, cDay, cPlan>>
    /\ UNCHANGED <<mainVars, objVars, expected>>

\* render_day_grid: the marker of a variation
CalcColorClass ==
    /\ cDay = NoMeals /\ cPlan = MealPlan(<<>>)
    /\ \E variation_percentage \in Percentages :
           cOut' = [fn |-> "color", variation |-> variation_percentage,
                    v |-> get_variation_color_class(variation_percentage)]
    /\ UNCHANGED <<cFoods, cDay, cPlan>>
    /\ UNCHANGED <<mainVars, objVars, expected>>

\* x + y, y + x, x + 0, 0 + x, (x + y) + z and x + (y + z)
CalcAdd ==
    /\ cDay = NoMeals /\ cPlan = MealPlan(<<>>)
    /\ \E x \in Addends(cFoods), y \in Addends(cFoods), z \in Addends(cFoods) :
           cOut' = [fn |-> "add", x |-> x, y |-> y, z |-> z,
                    xy |-> add(x, y), yx |-> add(y, x),
                    x0 |-> add(x, NutritionValues0), zero_x |-> add(NutritionValues0, x),
                    xy_z |-> add(add(x, y), z), x_yz |-> add(x, add(y, z))]
    /\ UNCHANGED <<cFoods, cDay, cPlan>>
    /\ UNCHANGED <<mainVars, objVars, expected>>

\* diet documents: of the documented shape (among them one without meals, one
\* with an empty meal and a meal of two items, one whose items hold their keys
\* in the other order), and two that are not (a meal that is a string, an item
\* with a third key)
SwappedDiet == Diet_to_dict(Diet(TwoMeals(<<Item("Riso", 30)>>, <<Item("Pollo", 150)>>)))
CenaDoc ==
    PyDict(<<[k |-> "Cena",
              v |-> PyList(<<PyDict(<<[k |-> "quantita", v |-> PyNum(Num(150))],
                                      [k |-> "alimento", v |-> PyStr("Pollo")]>>)>>)]>>)
MealStrDoc == PyDict(<<[k |-> "Colazione", v |-> PyStr("")]>>)
DietDocs ==
    {PyDict(<<>>), SwappedDiet, CenaDoc,
     Diet_to_dict(Diet(TwoMeals(<<>>, <<Item("Riso", 30), Item("Pollo", 150)>>))),
     MealStrDoc,
     PyDict(<<[k |-> "Cena",
               v |-> PyList(<<PyDict(<<[k |-> "alimento", v |-> PyStr("Pollo")],
                                       [k |-> "quantita", v |-> PyNum(Num(150))],
                                       [k |-> "note", v |-> PyStr("x")]>>)>>)]>>)}

\* meal plan documents: days in any order holding diet documents
PlanDocs ==
    {PyDict(<<>>)}
      \cup {PyDict(<<[k |-> DayId(2), v |-> a], [k |-> DayId(1), v |-> b]>>) :
               a \in {CenaDoc, MealStrDoc},
               b \in {SwappedDiet,
                      Diet_to_dict(Diet(TwoMeals(<<>>, <<Item("Riso", 30), Item("Pollo", 150)>>)))}}

\* Diet.from_dict(x) and its to_dict, save_diet followed by load_diet of that
\* diet, MealPlan.from_dict(y) and its to_dict
CalcRoundTrip ==
    /\ cDay = NoMeals /\ cPlan = MealPlan(<<>>)
    /\ \E x \in DietDocs, y \in PlanDocs :
         \E diet \in {Diet_from_dict(x)}, meal_plan \in {MealPlan_from_dict(y)} :
           cOut' = [fn |-> "roundtrip", x |-> x, y |-> y,
                    diet |-> diet,
                    diet_dict |-> IF diet.ok THEN Diet_to_dict(diet.v) ELSE PyNone,
                    loaded |-> IF diet.ok THEN load_diet(save_diet(diet.v)) ELSE Raised,
                    meal_plan |-> meal_plan,
                    plan_dict |-> IF meal_plan.ok THEN MealPlan_to_dict(meal_plan.v)
                                  ELSE PyNone]
    /\ UNCHANGED <<cFoods, cDay, cPlan>>
    /\ UNCHANGED <<mainVars, objVars, expected>>

NextCalc ==
    \/ CalcDayNutrition \/ CalcResetAll \/ CalcAddDay \/ CalcWeeklyRecap
    \/ CalcVariation \/ CalcColorClass \/ CalcAdd \/ CalcRoundTrip

SpecCalc == InitCalc /\ [][NextCalc]_vars

----------------------------------------------------------------------------
(* Spec: the session state and the page handlers *)

\* an instance of a class held where the code expects a dict
PyObject(cls, obj) == [t |-> cls, o |-> obj]

\* st.session_state
Session(dieta_edit, dieta_da_temp, meal_plan, editing_day) ==
    [dieta_edit |-> dieta_edit, dieta_da_temp |-> dieta_da_temp,
     meal_plan |-> meal_plan, editing_day |-> editing_day]

\* initialize_session_state with the persisted plan ignored: the plan always
\* derived from the working diet
initialize_always_derived(dTemp, dFile, rFile) ==
    LET loaded == load_diet_temp(dTemp, dFile)
        complete_data == load_complete_data(rFile)
    IN  IF loaded.ok /\ complete_data.ok
        THEN Only({Ok(Session(dieta_edit, loaded.v.is_temp,
                              Only({MealPlan_to_dict(
                                        initialize_meal_plan_from_diet(diet, DayNames)) :
                                    diet \in Returned(Diet_from_dict(dieta_edit))}),
                              PyNone)) :
                   dieta_edit \in {Diet_to_dict(loaded.v.diet)}})
        ELSE Raised

\* MealPlannerApp.initialize_session_state on an empty session state
initialize_session_state(dTemp, dFile, rFile) ==
    LET loaded == load_diet_temp(dTemp, dFile)
        complete_data == load_complete_data(rFile)
        stored == /\ complete_data.v.t = "dict"
                  /\ DictHas(complete_data.v.x, "meal_plan")
    IN  IF loaded.ok /\ complete_data.ok
        THEN Only({Ok(Session(dieta_edit, loaded.v.is_temp,
                              IF stored
                              THEN DictGet(complete_data.v.x, "meal_plan")
                              ELSE Only({MealPlan_to_dict(
                                             initialize_meal_plan_from_diet(diet, DayNames)) :
                                         diet \in Returned(Diet_from_dict(dieta_edit))}),
                              PyNone)) :
                   dieta_edit \in {Diet_to_dict(loaded.v.diet)}})
        ELSE Raised

\* the diet of a fresh installation, with the configured meals. The diets of
\* the model name foods of the catalog only and hold float quantities, so that
\* rendering a page leaves every selectbox and number_input on the stored value
InitialDiet == Diet(TwoMeals(<<Item("Pollo", 150)>>, <<Item("Riso", 30)>>))

\* the documents a user uploads on the diet page
NotJson == [st |-> "corrupt", data |-> PyNone]
UploadList == JsonFile(PyList(<<>>))
UploadMealStr == JsonFile(PyDict(<<[k |-> "Colazione", v |-> PyStr("")]>>))
UploadNoQuantita ==
    JsonFile(PyDict(<<[k |-> "Colazione",
                       v |-> PyList(<<PyDict(<<[k |-> "alimento", v |-> PyStr("Pollo")]>>)>>)]>>))
UploadDiet ==
    JsonFile(Diet_to_dict(Diet(TwoMeals(<<Item("Riso", 30)>>, <<Item("Pollo", 150)>>))))
\* a diet with another meal, the keys of its item in the other order
UploadCena ==
    JsonFile(PyDict(<<[k |-> "Cena",
                       v |-> PyList(<<PyDict(<<[k |-> "quantita", v |-> PyNum(Num(150))],
                                               [k |-> "alimento", v |-> PyStr("Pollo")]>>)>>)]>>))
UploadFiles == {NotJson, UploadList, UploadMealStr, UploadNoQuantita, UploadDiet, UploadCena}

\* where a filesystem error strikes during a commit / an upload
CommitFaults == {"none", "backup", "move"}
UploadFaults == {"none", "backup", "open", "write"}

\* the quantities typed into a number_input, the days clicked in the grid
EditQuantities == {Num(50)}
GridDays == {1, 35}

\* a script run sees one widget changed: the selectbox of a food item gives
\* another food name, or its number_input another quantity
Changes(food_item, names) ==
    ({FoodItem(PyStr(names[n]), food_item.quantita) : n \in 1..Len(names)}
        \cup {FoodItem(food_item.alimento, PyNum(q)) : q \in EditQuantities})
    \ {food_item}

\* what an interaction reports: (ok, msg) is what the handler got back from
\* the data manager, file the uploaded document, pre the files before it,
\* plan the session's meal plan and stored the combined document before it
Report(op, ok, msg, file) ==
    [op |-> op, ok |-> ok, msg |-> msg, file |-> file,
     pre |-> Files(dietFile, dietTemp, backups), plan |-> ss.meal_plan,
     stored |-> recapFile]

\* the combined document an earlier session left: the plan of the initial diet
\* with Giorno_1 edited on the tracker page, and its recap
EarlierPlan ==
    add_day(initialize_meal_plan_from_diet(InitialDiet, DayNames),
            Day(DayId(1), TwoMeals(<<Item("Riso", 30)>>, <<>>)))
EarlierRecap ==
    save_complete_data(EarlierPlan,
                       calculate_weekly_recap(get_foods_data_dict(JsonFile(CatalogFull)),
                                              EarlierPlan, DayNames))

Init ==
    /\ dietFile = save_diet(InitialDiet)
    /\ dietTemp = Absent
    /\ legacyTemp \in {Absent, save_diet(InitialDiet)}   \* left by the legacy main.py or not
    /\ backups = <<>>
    /\ recapFile \in {Absent, EarlierRecap}   \* a first run, or a plan edited before
    /\ foodsFile = JsonFile(CatalogFull)
    /\ clock = 0
    /\ ss \in Returned(initialize_session_state(dietTemp, dietFile, recapFile))
    /\ last = Report("start", TRUE, "", Absent)
    /\ nOps = 0
    /\ calcIdle /\ objIdle /\ expected = <<>>
    /\ peer = <<>> /\ turns = 0

\* Diet.from_dict(st.session_state.dieta_edit), as every page but the buttons
\* at the top of the diet page starts with
TheDiet == Diet_from_dict(ss.dieta_edit)

\* MealPlan.from_dict(st.session_state.meal_plan)
ThePlan == MealPlan_from_dict(ss.meal_plan)

\* sorted(foods_data.keys()) of get_foods_data_dict()
TheFoodNames == food_names(get_foods_data_dict(foodsFile))

\* render_diet_editing_interface, from the point a change is known: the
\* session takes the diet and it is staged
Stage(diet) ==
    /\ ss' = [ss EXCEPT !.dieta_edit = Diet_to_dict(diet), !.dieta_da_temp = TRUE]
    /\ dietTemp' = save_diet(diet)
    /\ last' = Report("stage", TRUE, "", Absent)
    /\ nOps' = nOps + 1
    /\ UNCHANGED <<dietFile, legacyTemp, backups, recapFile, foodsFile, clock, idleVars>>

\* diet page: "Aggiungi alimento a <meal>" (food_names[0] raises IndexError
\* with an empty catalog)
DietAddFood ==
    /\ nOps < MaxOps
    /\ \E diet \in Returned(TheDiet), names \in {TheFoodNames} :
         /\ Len(names) > 0
         /\ \E i \in 1..Len(diet.meals) :
              /\ Len(diet.meals[i].v.food_items) < MaxItems
              /\ Stage([diet EXCEPT !.meals[i].v =
                           add_food_item(@, FoodItem(PyStr(names[1]), PyNum(Hundred)))])

\* diet page: the delete button of a food item
DietDeleteFood ==
    /\ nOps < MaxOps
    /\ \E diet \in Returned(TheDiet) :
         \E i \in 1..Len(diet.meals) :
           \E idx \in 0..(Len(diet.meals[i].v.food_items) - 1) :
              Stage([diet EXCEPT !.meals[i].v = remove_food_item(@, idx)])

\* diet page: another food selected or another quantity typed for a food item
DietEditFood ==
    /\ nOps < MaxOps
    /\ \E diet \in Returned(TheDiet), names \in {TheFoodNames} :
         \E i \in 1..Len(diet.meals) :
           \E idx \in 0..(Len(diet.meals[i].v.food_items) - 1) :
             \E new \in Changes(diet.meals[i].v.food_items[idx + 1], names) :
                Stage([diet EXCEPT !.meals[i].v.food_items[idx + 1] = new])

\* diet page: "Reset Dieta" (reset_diet_to_original of the page): removes
\* ./dieta_temp.json, reloads the committed diet into the session. A diet file
\* that does not load makes load_diet raise after the removal
DietReset ==
    /\ nOps < MaxOps
    /\ legacyTemp' = Absent
    /\ \E original_diet \in {load_diet(dietFile)} :
         /\ ss' = IF original_diet.ok
                  THEN [ss EXCEPT !.dieta_edit = Diet_to_dict(original_diet.v),
                                  !.dieta_da_temp = FALSE]
                  ELSE ss
         /\ last' = Report("reset", original_diet.ok, "", Absent)
    /\ nOps' = nOps + 1
    /\ UNCHANGED <<dietFile, dietTemp, backups, recapFile, foodsFile, clock, idleVars>>

\* diet page: "Conferma Modifiche", shown while dieta_da_temp is set
DietConfirm ==
    /\ nOps < MaxOps
    /\ ss.dieta_da_temp
    /\ \E fault \in CommitFaults :
         \E r \in {confirm_diet_changes(Files(dietFile, dietTemp, backups), clock, fault)} :
             /\ dietFile' = r.files.diet
             /\ dietTemp' = r.files.temp
             /\ backups' = r.files.backups
             /\ ss' = IF r.ok THEN [ss EXCEPT !.dieta_da_temp = FALSE] ELSE ss
             /\ last' = Report("confirm", r.ok, r.msg, Absent)
    /\ nOps' = nOps + 1
    /\ UNCHANGED <<legacyTemp, recapFile, foodsFile, clock, idleVars>>

\* diet page: "Carica Dieta" with an uploaded file (load_new_diet of the page):
\* on success the session takes the third element of the result
DietUpload ==
    /\ nOps < MaxOps
    /\ \E uploaded \in UploadFiles, fault \in UploadFaults :
         \E r \in {load_new_diet_from_file(Files(dietFile, dietTemp, backups),
                                           uploaded, clock, fault)} :
             /\ dietFile' = r.files.diet
             /\ dietTemp' = r.files.temp
             /\ backups' = r.files.backups
             /\ ss' = IF r.ok
                      THEN [ss EXCEPT !.dieta_edit = PyObject("Diet", r.new_diet),
                                      !.dieta_da_temp = FALSE]
                      ELSE ss
             /\ last' = Report("upload", r.ok, r.msg, uploaded)
    /\ nOps' = nOps + 1
    /\ UNCHANGED <<legacyTemp, recapFile, foodsFile, clock, idleVars>>

\* tracker page, grid (rendered when the diet loads): the button of a
\* configured day
TrackerSelect ==
    /\ nOps < MaxOps
    /\ ss.editing_day = PyNone
    /\ TheDiet.ok
    /\ \E meal_plan \in Returned(ThePlan), n \in GridDays :
         /\ get_day(meal_plan, DayId(n)).ok
         /\ ss' = [ss EXCEPT !.editing_day = PyStr(DayId(n))]
    /\ last' = Report("select", TRUE, "", Absent)
    /\ nOps' = nOps + 1
    /\ UNCHANGED <<fileVars, clock, idleVars>>

\* tracker page, day: "Torna alla griglia"
TrackerBack ==
    /\ nOps < MaxOps
    /\ ss.editing_day # PyNone
    /\ ss' = [ss EXCEPT !.editing_day = PyNone]
    /\ last' = Report("back", TRUE, "", Absent)
    /\ nOps' = nOps + 1
    /\ UNCHANGED <<fileVars, clock, idleVars>>

\* a save that puts the day into the plan recap.json holds, when it holds one,
\* not into the plan of the session
SaveDayOnStored(plan, day) ==
    \E onto \in {IF exists(recapFile)
                 THEN MealPlan_from_dict(DictGet(load_complete_data(recapFile).v.x,
                                                 "meal_plan")).v
                 ELSE plan} :
      \E meal_plan \in {add_day(onto, day)}, foods_data \in {get_foods_data_dict(foodsFile)} :
        /\ ss' = [ss EXCEPT !.meal_plan = MealPlan_to_dict(meal_plan)]
        /\ recapFile' = save_complete_data(meal_plan,
                            calculate_weekly_recap(foods_data, meal_plan, DayNames))
        /\ last' = Report("day", TRUE, "", Absent)
        /\ nOps' = nOps + 1
        /\ UNCHANGED <<dietFile, dietTemp, legacyTemp, backups, foodsFile, clock, idleVars>>

\* a save whose recap is computed before the day goes into the plan
SaveDayStaleRecap(plan, day) ==
    \E meal_plan \in {add_day(plan, day)}, foods_data \in {get_foods_data_dict(foodsFile)} :
        /\ ss' = [ss EXCEPT !.meal_plan = MealPlan_to_dict(meal_plan)]
        /\ recapFile' = save_complete_data(meal_plan,
                            calculate_weekly_recap(foods_data, plan, DayNames))
        /\ last' = Report("day", TRUE, "", Absent)
        /\ nOps' = nOps + 1
        /\ UNCHANGED <<dietFile, dietTemp, legacyTemp, backups, foodsFile, clock, idleVars>>

\* tracker page, day, from the point a change is known: the day goes into the
\* plan, the session takes the plan, the recap is computed and both are saved
SaveDay(plan, day) ==
    \E meal_plan \in {add_day(plan, day)}, foods_data \in {get_foods_data_dict(foodsFile)} :
        /\ ss' = [ss EXCEPT !.meal_plan = MealPlan_to_dict(meal_plan)]
        /\ recapFile' = save_complete_data(meal_plan,
                            calculate_weekly_recap(foods_data, meal_plan, DayNames))
        /\ last' = Report("day", TRUE, "", Absent)
        /\ nOps' = nOps + 1
        /\ UNCHANGED <<dietFile, dietTemp, legacyTemp, backups, foodsFile, clock, idleVars>>

\* the Day the day page edits: its widgets are rendered when a day is being
\* edited, the plan holds it and the diet loads
TheDay(meal_plan) ==
    IF ss.editing_day # PyNone /\ TheDiet.ok
    THEN Returned(get_day(meal_plan, ss.editing_day.s))
    ELSE {}

\* tracker page, day: "Aggiungi a <meal>"
TrackerAddFood ==
    /\ nOps < MaxOps
    /\ \E meal_plan \in Returned(ThePlan), names \in {TheFoodNames} :
         \E day \in TheDay(meal_plan) :
           /\ Len(names) > 0
           /\ \E i \in 1..Len(day.meals) :
                /\ Len(day.meals[i].v.food_items) < MaxItems
                /\ SaveDay(meal_plan,
                           [day EXCEPT !.meals[i].v =
                               add_food_item(@, FoodItem(PyStr(names[1]), PyNum(Hundred)))])

\* tracker page, day: the delete button of a food item
TrackerDeleteFood ==
    /\ nOps < MaxOps
    /\ \E meal_plan \in Returned(ThePlan) :
         \E day \in TheDay(meal_plan) :
           \E i \in 1..Len(day.meals) :
             \E idx \in 0..(Len(day.meals[i].v.food_items) - 1) :
                SaveDay(meal_plan, [day EXCEPT !.meals[i].v = remove_food_item(@, idx)])

\* tracker page, day: another food selected or another quantity typed
TrackerEditFood ==
    /\ nOps < MaxOps
    /\ \E meal_plan \in Returned(ThePlan), names \in {TheFoodNames} :
         \E day \in TheDay(meal_plan) :
           \E i \in 1..Len(day.meals) :
             \E idx \in 0..(Len(day.meals[i].v.food_items) - 1) :
               \E new \in Changes(day.meals[i].v.food_items[idx + 1], names) :
                  SaveDay(meal_plan,
                          [day EXCEPT !.meals[i].v.food_items[idx + 1] = new])

\* a RESET that projects the committed diet, not the session's
RecapResetFromCommitted ==
    /\ nOps < MaxOps
    /\ ThePlan.ok /\ TheDiet.ok
    /\ \E diet \in Returned(load_diet(dietFile)), foods_data \in {get_foods_data_dict(foodsFile)} :
         \E meal_plan \in {initialize_meal_plan_from_diet(diet, DayNames)} :
           /\ ss' = [ss EXCEPT !.meal_plan = MealPlan_to_dict(meal_plan)]
           /\ recapFile' = save_complete_data(meal_plan,
                               calculate_weekly_recap(foods_data, meal_plan, DayNames))
    /\ last' = Report("recap_reset", TRUE, "", Absent)
    /\ nOps' = nOps + 1
    /\ UNCHANGED <<dietFile, dietTemp, legacyTemp, backups, foodsFile, clock, idleVars>>

\* recap page (rendered when the plan and the diet load): "RESET (Ripristina
\* da Dieta)" (reset_all_to_diet of the page)
RecapReset ==
    /\ nOps < MaxOps
    /\ ThePlan.ok
    /\ \E diet \in Returned(TheDiet), foods_data \in {get_foods_data_dict(foodsFile)} :
         \E meal_plan \in {initialize_meal_plan_from_diet(diet, DayNames)} :
           /\ ss' = [ss EXCEPT !.meal_plan = MealPlan_to_dict(meal_plan)]
           /\ recapFile' = save_complete_data(meal_plan,
                               calculate_weekly_recap(foods_data, meal_plan, DayNames))
    /\ last' = Report("recap_reset", TRUE, "", Absent)
    /\ nOps' = nOps + 1
    /\ UNCHANGED <<dietFile, dietTemp, legacyTemp, backups, foodsFile, clock, idleVars>>

\* a new browser session: initialize_session_state on an empty session state.
\* When a load raises the script run ends in the error and the session gets no
\* state: ss stays with the session the user had. A session start writes no
\* file and is not counted in nOps
NewSession ==
    /\ \E r \in {initialize_session_state(dietTemp, dietFile, recapFile)} :
         /\ ss' = IF r.ok THEN r.v ELSE ss
         /\ last' = Report("session", r.ok, "", Absent)
    /\ UNCHANGED <<fileVars, clock, nOps, idleVars>>

\* a second passes
Tick ==
    /\ clock < MaxClock
    /\ clock' = clock + 1
    /\ UNCHANGED <<fileVars, ss, last, nOps, idleVars>>

Next ==
    \/ DietAddFood \/ DietDeleteFood \/ DietEditFood
    \/ DietReset \/ DietConfirm \/ DietUpload
    \/ TrackerSelect \/ TrackerBack
    \/ TrackerAddFood \/ TrackerDeleteFood \/ TrackerEditFood
    \/ RecapReset \/ NewSession \/ Tick

Spec == Init /\ [][Next]_vars

----------------------------------------------------------------------------
(* SpecTwo: two browser sessions on the tracker page. Each has its own       *)
(* st.session_state; ss is that of the session whose script runs, peer that  *)
(* of the other. A script run is one step, so the runs of the two sessions   *)
(* interleave whole.                                                         *)

\* the days a session has open when the other one starts to act
OpenDays == {PyNone, PyStr(DayId(1)), PyStr(DayId(35))}

\* a session that started on the files and went to the tracker page
SessionOn(editing_day) ==
    {[s EXCEPT !.editing_day = editing_day] :
        s \in Returned(initialize_session_state(dietTemp, dietFile, recapFile))}

InitTwo ==
    /\ dietFile = save_diet(InitialDiet)
    /\ dietTemp = Absent /\ legacyTemp = Absent /\ backups = <<>>
    /\ recapFile \in {Absent, EarlierRecap}
    /\ foodsFile = JsonFile(CatalogFull)
    /\ clock = 0
    /\ \E mine \in OpenDays \ {PyStr(DayId(35))}, theirs \in OpenDays :
         /\ ss \in SessionOn(mine)
         /\ peer \in SessionOn(theirs)
    /\ turns = 0
    /\ last = Report("start", TRUE, "", Absent)
    /\ nOps = 0
    /\ calcIdle /\ objIdle /\ expected = <<>>

\* the next script run is of the other session
SwitchSession ==
    /\ turns < MaxTurns
    /\ ss' = peer
    /\ peer' = ss
    /\ turns' = turns + 1
    /\ last' = Report("switch", TRUE, "", Absent)
    /\ UNCHANGED <<fileVars, clock, nOps, calcVars, objVars, expected>>

NextTwo ==
    \/ TrackerSelect \/ TrackerBack
    \/ TrackerAddFood \/ TrackerDeleteFood \/ TrackerEditFood
    \/ SwitchSession

SpecTwo == InitTwo /\ [][NextTwo]_vars

----------------------------------------------------------------------------
(* SpecObj: the objects of models.py with their identity. A Meal or FoodItem  *)
(* object is an entry of heap and is held by its address (its index); a Meal  *)
(* holds the addresses of its food items, a Diet or Day the addresses of its  *)
(* meals. An assignment through one holder of an address is seen by all.      *)

\* edits per behaviour of SpecObj
MaxObjEdits == 2

\* the result of a call that allocates: the heap it leaves and its value
Alloc(h, v) == [heap |-> h, v |-> v]

\* the loop of Diet.from_dict: Meal.from_dict makes a FoodItem per item and a
\* Meal; meals holds values (as models.py above), the result addresses
RECURSIVE from_dict_loop(_, _, _, _)
from_dict_loop(h, meals, i, new_meals) ==
    IF i > Len(meals) THEN Alloc(h, new_meals)
    ELSE LET food_items == meals[i].v.food_items
             n == Len(food_items)
         IN  from_dict_loop(
                 h \o food_items \o <<Meal(meals[i].k, [j \in 1..n |-> Len(h) + j])>>,
                 meals, i + 1,
                 Append(new_meals, [k |-> meals[i].k, v |-> Len(h) + n + 1]))

\* the loop of Diet.copy: FoodItem(item.alimento, item.quantita) for every item
\* of the meal, then Meal(meal_name, new_food_items)
RECURSIVE copy_loop(_, _, _, _)
copy_loop(h, meals, i, new_meals) ==
    IF i > Len(meals) THEN Alloc(h, new_meals)
    ELSE LET meal == h[meals[i].v]
             n == Len(meal.food_items)
             new_food_items == [j \in 1..n |->
                                   FoodItem(h[meal.food_items[j]].alimento,
                                            h[meal.food_items[j]].quantita)]
         IN  copy_loop(
                 h \o new_food_items \o <<Meal(meals[i].k, [j \in 1..n |-> Len(h) + j])>>,
                 meals, i + 1,
                 Append(new_meals, [k |-> meals[i].k, v |-> Len(h) + n + 1]))

\* Diet.copy
Diet_copy_obj(h, self) ==
    LET c == copy_loop(h, self.meals, 1, <<>>)
    IN  Alloc(c.heap, Diet(c.v))

\* Day.reset_to_diet with the copy left out: self.meals = diet.meals
reset_to_diet_shared(h, self, diet) ==
    Alloc(h, [self EXCEPT !.meals = diet.meals])

\* Day.reset_to_diet: self.meals = diet.copy().meals
reset_to_diet_obj(h, self, diet) ==
    LET c == Diet_copy_obj(h, diet)
    IN  Alloc(c.heap, [self EXCEPT !.meals = c.v.meals])

\* MealPlan.reset_all_to_diet: the loop over day_names[lo..hi], lo <= hi. The
\* calls are made in the order of the loop; the range is split in halves so
\* that the evaluation does not nest once per day
RECURSIVE reset_all_loop(_, _, _, _, _, _)
reset_all_loop(h, days, diet, day_names, lo, hi) ==
    IF lo = hi
    THEN LET day_name == day_names[lo]
             day == IF DictHas(days, day_name)
                    THEN DictGet(days, day_name)
                    ELSE Day(day_name, <<>>)
         IN  Only({Alloc(r.heap, DictSet(days, day_name, r.v)) :
                      r \in {reset_to_diet_obj(h, day, diet)}})
    ELSE Only({reset_all_loop(first.heap, first.v, diet, day_names, (lo + hi) \div 2 + 1, hi) :
                  first \in {reset_all_loop(h, days, diet, day_names, lo, (lo + hi) \div 2)}})

reset_all_to_diet_obj(h, self, diet, day_names) ==
    IF day_names = <<>> THEN Alloc(h, self)
    ELSE LET r == reset_all_loop(h, self.days, diet, day_names, 1, Len(day_names))
         IN  Alloc(r.heap, MealPlan(r.v))

\* Meal.add_food_item of the Meal at address m with a new FoodItem object
add_food_item_obj(h, m, food_item) ==
    [Append(h, food_item) EXCEPT ![m].food_items = Append(@, Len(h) + 1)]

\* Meal.remove_food_item / food_items.pop(index) of the Meal at address m
remove_food_item_obj(h, m, index) ==
    [h EXCEPT ![m] = remove_food_item(@, index)]

\* the meals as values: every address replaced by what it holds
MealsValue(h, meals) ==
    [i \in 1..Len(meals) |->
        [k |-> meals[i].k,
         v |-> Meal(h[meals[i].v].name,
                    [j \in 1..Len(h[meals[i].v].food_items) |->
                        h[h[meals[i].v].food_items[j]]])]]

\* the Meal and FoodItem objects held through a meals dict
ObjectsOf(h, meals) ==
    {meals[i].v : i \in 1..Len(meals)}
        \cup UNION {{h[meals[i].v].food_items[j] : j \in 1..Len(h[meals[i].v].food_items)} :
                       i \in 1..Len(meals)}

\* the diet and the days an edit goes to
ObjDayNumbers == {1, 2, 35}
Owners == {"diet"} \cup {DayId(n) : n \in ObjDayNumbers}

\* the meals dict of the diet / of a day of the plan (none for a day the plan lacks)
MealsOfOwner(owner) ==
    IF owner = "diet" THEN {oDiet.meals}
    ELSE IF DictHas(oPlan.days, owner) THEN {DictGet(oPlan.days, owner).meals}
    ELSE {}

\* the values of the diet and of every day, before an operation
Snapshot ==
    [diet |-> MealsValue(heap, oDiet.meals),
     days |-> [i \in 1..Len(oPlan.days) |->
                  [k |-> oPlan.days[i].k, v |-> MealsValue(heap, oPlan.days[i].v.meals)]]]

\* a Diet built by Diet.from_dict and an empty MealPlan()
InitObj ==
    /\ filesIdle /\ calcIdle /\ expected = <<>>
    /\ \E diet \in PlanDiets :
          \E d \in {from_dict_loop(<<>>, diet.meals, 1, <<>>)} :
              /\ heap = d.heap
              /\ oDiet = Diet(d.v)
    /\ oPlan = MealPlan(<<>>)
    /\ last = [op |-> "new", owner |-> "", before |-> Snapshot]
    /\ nOps = 0

\* meal_plan.reset_all_to_diet(diet, day_names)
ObjResetAll ==
    /\ nOps < MaxObjEdits
    /\ \E r \in {reset_all_to_diet_obj(heap, oPlan, oDiet, DayNames)} :
          /\ heap' = r.heap
          /\ oPlan' = r.v
    /\ last' = [op |-> "reset_all", owner |-> "", before |-> Snapshot]
    /\ nOps' = nOps + 1
    /\ UNCHANGED <<oDiet, fileVars, clock, ss, peer, turns, calcVars, expected>>

\* meal.add_food_item(FoodItem(...)) on a meal of the diet or of a day
ObjAddFood ==
    /\ nOps < MaxObjEdits
    /\ \E owner \in Owners :
         \E meals \in MealsOfOwner(owner) :
           \E i \in 1..Len(meals) :
              /\ Len(heap[meals[i].v].food_items) < MaxItems
              /\ heap' = add_food_item_obj(heap, meals[i].v,
                                           FoodItem(PyStr("Pollo"), PyNum(Hundred)))
              /\ last' = [op |-> "add", owner |-> owner, before |-> Snapshot]
    /\ nOps' = nOps + 1
    /\ UNCHANGED <<oDiet, oPlan, fileVars, clock, ss, peer, turns, calcVars, expected>>

\* meal.remove_food_item(index) / meal.food_items.pop(idx)
ObjRemoveFood ==
    /\ nOps < MaxObjEdits
    /\ \E owner \in Owners :
         \E meals \in MealsOfOwner(owner) :
           \E i \in 1..Len(meals) :
             \E index \in 0..(Len(heap[meals[i].v].food_items) - 1) :
                /\ heap' = remove_food_item_obj(heap, meals[i].v, index)
                /\ last' = [op |-> "remove", owner |-> owner, before |-> Snapshot]
    /\ nOps' = nOps + 1
    /\ UNCHANGED <<oDiet, oPlan, fileVars, clock, ss, peer, turns, calcVars, expected>>

\* food_item.quantita = new_quantity on a food item of a meal
ObjSetQuantity ==
    /\ nOps < MaxObjEdits
    /\ \E owner \in Owners, new_quantity \in EditQuantities :
         \E meals \in MealsOfOwner(owner) :
           \E i \in 1..Len(meals) :
             \E idx \in 1..Len(heap[meals[i].v].food_items) :
                /\ heap[heap[meals[i].v].food_items[idx]].quantita # PyNum(new_quantity)
                /\ heap' = [heap EXCEPT ![heap[meals[i].v].food_items[idx]].quantita =
                                            PyNum(new_quantity)]
                /\ last' = [op |-> "set", owner |-> owner, before |-> Snapshot]
    /\ nOps' = nOps + 1
    /\ UNCHANGED <<oDiet, oPlan, fileVars, clock, ss, peer, turns, calcVars, expected>>

NextObj == ObjResetAll \/ ObjAddFood \/ ObjRemoveFood \/ ObjSetQuantity

SpecObj == InitObj /\ [][NextObj]_vars

----------------------------------------------------------------------------
(* SpecData: the operations of DataManager called on files in any of the     *)
(* conditions the program leaves them in: missing (a new installation), cut  *)
(* short by a failed write, or written by save_json_file                     *)

\* writes (add_food, remove_food, save_day_data) per behaviour of SpecData
MaxDataOps == 2

\* del d[key]
DictDel(d, key) ==
    LET other(e) == e.k # key
    IN  SelectSeq(d, other)

\* sorted(d.keys())
sorted_keys(d) ==
    LET held(n) == DictHas(d, n)
    IN  SelectSeq(Alphabetical, held)

\* DataManager.load_foods: dict  name -> Food
load_foods(file) ==
    LET foods_data == load_json_file(file)
    IN  IF foods_data.ok
        THEN Ok([i \in 1..Len(foods_data.v.x) |->
                    [k |-> foods_data.v.x[i].k,
                     v |-> Food_from_dict(foods_data.v.x[i].k, foods_data.v.x[i].v)]])
        ELSE Raised

\* save_foods writing the foods in the order the dict holds them
save_foods_unsorted(foods) ==
    JsonFile(PyDict([i \in 1..Len(foods) |->
                        [k |-> foods[i].k, v |-> Food_to_dict(foods[i].v)]]))

\* DataManager.save_foods: what it leaves in foods.json
save_foods(foods) ==
    LET sorted_food_names == sorted_keys(foods)
    IN  JsonFile(PyDict([i \in 1..Len(sorted_food_names) |->
                            [k |-> sorted_food_names[i],
                             v |-> Food_to_dict(DictGet(foods, sorted_food_names[i]))]]))

\* DataManager.add_food: whether it returned, and the file it leaves
add_food(file, food) ==
    LET foods == load_foods(file)
    IN  IF foods.ok
        THEN [ok |-> TRUE, v |-> PyNone, file |-> save_foods(DictSet(foods.v, food.name, food))]
        ELSE [ok |-> FALSE, v |-> PyNone, file |-> file]

\* DataManager.can_remove_food: protected_foods = ["-----"]
can_remove_food(food_name) == food_name # "-----"

\* remove_food without the check of the protected foods
remove_food_unprotected(file, food_name) ==
    LET foods == load_foods(file)
    IN  IF ~foods.ok THEN [ok |-> FALSE, v |-> FALSE, file |-> file]
        ELSE IF DictHas(foods.v, food_name)
        THEN [ok |-> TRUE, v |-> TRUE, file |-> save_foods(DictDel(foods.v, food_name))]
        ELSE [ok |-> TRUE, v |-> FALSE, file |-> file]

\* DataManager.remove_food: whether it returned, what it returned and the file
\* it leaves
remove_food(file, food_name) ==
    LET foods == load_foods(file)
    IN  IF ~can_remove_food(food_name) THEN [ok |-> TRUE, v |-> FALSE, file |-> file]
        ELSE IF ~foods.ok THEN [ok |-> FALSE, v |-> FALSE, file |-> file]
        ELSE IF DictHas(foods.v, food_name)
        THEN [ok |-> TRUE, v |-> TRUE, file |-> save_foods(DictDel(foods.v, food_name))]
        ELSE [ok |-> TRUE, v |-> FALSE, file |-> file]

\* `complete_data and key in complete_data`
holds(complete_data, key) ==
    /\ complete_data.t = "dict"
    /\ complete_data.x # <<>>
    /\ DictHas(complete_data.x, key)

\* DataManager.load_meal_plan: a MealPlan, or None
load_meal_plan(rFile) ==
    LET complete_data == load_complete_data(rFile)
    IN  IF ~complete_data.ok THEN Raised
        ELSE IF holds(complete_data.v, "meal_plan")
        THEN MealPlan_from_dict(DictGet(complete_data.v.x, "meal_plan"))
        ELSE Ok(PyNone)

\* DataManager.load_day_data: complete_data["meal_plan"].get(day_name), or None
load_day_data(rFile, day_name) ==
    LET complete_data == load_complete_data(rFile)
    IN  IF ~complete_data.ok THEN Raised
        ELSE IF holds(complete_data.v, "meal_plan")
        THEN (IF DictGet(complete_data.v.x, "meal_plan").t = "dict"
              THEN Ok(Get(DictGet(complete_data.v.x, "meal_plan"), day_name, PyNone))
              ELSE Raised)
        ELSE Ok(PyNone)

\* DataManager.load_recap_data
load_recap_data(rFile) ==
    LET complete_data == load_complete_data(rFile)
    IN  IF ~complete_data.ok THEN Raised
        ELSE IF holds(complete_data.v, "recap")
        THEN Ok(DictGet(complete_data.v.x, "recap"))
        ELSE Ok(PyNone)

\* save_day_data saving the day alone, the other days of the plan dropped
save_day_data_alone(rFile, day_name, day_data, meal_plan, recap_data) ==
    LET day == Day_from_dict(day_name, day_data)
    IN  IF day.ok
        THEN [ok |-> TRUE, file |-> save_complete_data(add_day(MealPlan(<<>>), day.v), recap_data)]
        ELSE [ok |-> FALSE, file |-> rFile]

\* DataManager.save_day_data: whether it returned, and the file it leaves
save_day_data(rFile, day_name, day_data, meal_plan, recap_data) ==
    LET day == Day_from_dict(day_name, day_data)
    IN  IF day.ok
        THEN [ok |-> TRUE, file |-> save_complete_data(add_day(meal_plan, day.v), recap_data)]
        ELSE [ok |-> FALSE, file |-> rFile]

\* the add form taking any name that is not empty, stored already or not
submit_new_food_unchecked(file, nome, kcal, carbs, protein, fat, fiber, tipologia) ==
    LET foods == load_foods(file)
        saved == add_food(file, Food(nome, kcal, carbs, protein, fat, fiber, tipologia))
    IN  IF ~foods.ok THEN [ok |-> FALSE, added |-> FALSE, msg |-> "", file |-> file]
        ELSE IF nome # ""
        THEN [ok |-> TRUE, added |-> saved.ok,
              msg |-> IF saved.ok THEN "aggiunto e salvato con successo"
                                  ELSE "Errore durante il salvataggio",
              file |-> saved.file]
        ELSE [ok |-> TRUE, added |-> FALSE, msg |-> "Inserisci il nome dell'alimento!",
              file |-> file]

\* render_foods_page, "Aggiungi alimento" submitted: whether the page rendered
\* (ok), whether the food was added, the message shown and the file it leaves
submit_new_food(file, nome, kcal, carbs, protein, fat, fiber, tipologia) ==
    LET foods == load_foods(file)
        saved == add_food(file, Food(nome, kcal, carbs, protein, fat, fiber, tipologia))
    IN  IF ~foods.ok THEN [ok |-> FALSE, added |-> FALSE, msg |-> "", file |-> file]
        ELSE IF nome # "" /\ ~DictHas(foods.v, nome)
        THEN [ok |-> TRUE, added |-> saved.ok,
              msg |-> IF saved.ok THEN "aggiunto e salvato con successo"
                                  ELSE "Errore durante il salvataggio",
              file |-> saved.file]
        ELSE IF DictHas(foods.v, nome)
        THEN [ok |-> TRUE, added |-> FALSE, msg |-> "Alimento già esistente!", file |-> file]
        ELSE [ok |-> TRUE, added |-> FALSE, msg |-> "Inserisci il nome dell'alimento!",
              file |-> file]

\* the names typed into the add form: none, one the catalog of a used
\* installation holds, and a new one
FormNames == {"", "Pollo", "Tofu"}

\* the foods handed to add_food: "Pollo" comes with two sets of values
NewFoods ==
    {Food_from_dict("-----", FoodEntry(0, 0, 0, 0, 0)),
     Food_from_dict("Pollo", FoodEntry(Num(110), Num(0), Num(23), Dec(12), Num(0))),
     Food_from_dict("Tofu", FoodEntry(Num(76), Dec(19), Num(8), Dec(48), Dec(3)))}

\* a combined document as a session leaves it: a plan of two days and its recap
StoredPlan == initialize_meal_plan_from_diet(InitialDiet, <<DayId(1), DayId(2)>>)
StoredRecap ==
    save_complete_data(StoredPlan, calculate_weekly_recap(CatalogFull, StoredPlan, DayNames))

\* the staged diet of SpecData
StagedDiet == Diet(TwoMeals(<<Item("Riso", 30)>>, <<Item("Pollo", 150)>>))

\* the day names, the day data and the plans handed to save_day_data: a day
\* the stored plan has and one it lacks; data in the Diet shape, data whose
\* item has its keys in the other order, data that is no dict; the plan loaded
\* from recap.json, an empty plan and a plan of another diet
DataDayNames == {DayId(1), DayId(3)}
DayDatas == {Diet_to_dict(StagedDiet), UploadCena.data, PyList(<<>>)}
CallerPlans(rFile) ==
    {MealPlan(<<>>), initialize_meal_plan_from_diet(StagedDiet, <<DayId(1), DayId(2)>>)}
        \cup {r \in Returned(load_meal_plan(rFile)) : r # PyNone}

\* the four files the operations read and write
DataFiles == [foods |-> foodsFile, diet |-> dietFile, temp |-> dietTemp, recap |-> recapFile]

\* what an operation reports: its name, its arguments, whether it returned
\* (ok) and what (v), and the files before it
Called(op, arg, ok, v) == [op |-> op, arg |-> arg, ok |-> ok, v |-> v, pre |-> DataFiles]

\* the names a catalog file holds
CatalogNames(file) ==
    IF file.st = "json" THEN {file.data.x[i].k : i \in 1..Len(file.data.x)} ELSE {}

\* the data directory at the start: a fresh installation without files, one
\* whose files were all cut short, and a used one with a catalog and a
\* combined document, whose diet and staging file are each missing, cut short
\* or valid
Installations ==
    {[foods |-> Absent, diet |-> Absent, temp |-> Absent, recap |-> Absent],
     [foods |-> Truncated, diet |-> Truncated, temp |-> Truncated, recap |-> Truncated]}
      \cup {[foods |-> JsonFile(CatalogFull), diet |-> d, temp |-> t, recap |-> StoredRecap] :
               d \in {Absent, Truncated, save_diet(InitialDiet)},
               t \in {Absent, Truncated, save_diet(StagedDiet)}}

InitData ==
    /\ legacyTemp = <<>> /\ backups = <<>> /\ clock = 0 /\ ss = <<>>
    /\ peer = <<>> /\ turns = 0
    /\ calcIdle /\ objIdle
    /\ \E at \in Installations :
         /\ foodsFile = at.foods /\ dietFile = at.diet
         /\ dietTemp = at.temp /\ recapFile = at.recap
    /\ expected = CatalogNames(foodsFile)
    /\ last = Called("none", <<>>, TRUE, PyNone)
    /\ nOps = 0

\* a load: nothing but the report changes
Loaded(op, arg, r) ==
    /\ last' = Called(op, arg, r.ok, r.v)
    /\ UNCHANGED <<fileVars, clock, ss, peer, turns, nOps, calcVars, objVars, expected>>

\* load_json_file of one of the four paths
LoadJsonFile ==
    \E path \in {"foods", "diet", "temp", "recap"} :
        Loaded("load_json_file", path, load_json_file(DataFiles[path]))

LoadFoods == Loaded("load_foods", <<>>, load_foods(foodsFile))

LoadDiet == Loaded("load_diet", <<>>, load_diet(dietFile))

LoadDietTemp == Loaded("load_diet_temp", <<>>, load_diet_temp(dietTemp, dietFile))

LoadMealPlan == Loaded("load_meal_plan", <<>>, load_meal_plan(recapFile))

LoadDayData ==
    \E day_name \in DataDayNames :
        Loaded("load_day_data", day_name, load_day_data(recapFile, day_name))

LoadRecapData == Loaded("load_recap_data", <<>>, load_recap_data(recapFile))

AddFood ==
    /\ nOps < MaxDataOps
    /\ \E food \in NewFoods :
         \E r \in {add_food(foodsFile, food)} :
            /\ foodsFile' = r.file
            /\ expected' = IF r.ok THEN expected \cup {food.name} ELSE expected
            /\ last' = Called("add_food", food, r.ok, r.v)
    /\ nOps' = nOps + 1
    /\ UNCHANGED <<dietFile, dietTemp, legacyTemp, backups, recapFile, clock, ss, peer, turns,
                   calcVars, objVars>>

\* foods page: the add form submitted with a name and the values of a food
FoodsPageAdd ==
    /\ nOps < MaxDataOps
    /\ \E nome \in FormNames, f \in {g \in NewFoods : g.name # "-----"} :
         \E r \in {submit_new_food(foodsFile, nome, f.kcal, f.carbs, f.protein, f.fat,
                                   f.fiber, f.tipologia)} :
            /\ foodsFile' = r.file
            /\ expected' = IF r.added THEN expected \cup {nome} ELSE expected
            /\ last' = Called("foods_form",
                              Food(nome, f.kcal, f.carbs, f.protein, f.fat, f.fiber, f.tipologia),
                              r.ok, [added |-> r.added, msg |-> r.msg])
    /\ nOps' = nOps + 1
    /\ UNCHANGED <<dietFile, dietTemp, legacyTemp, backups, recapFile, clock, ss, peer, turns,
                   calcVars, objVars>>

RemoveFood ==
    /\ nOps < MaxDataOps
    /\ \E food_name \in {Alphabetical[i] : i \in 1..Len(Alphabetical)} :
         \E r \in {remove_food(foodsFile, food_name)} :
            /\ foodsFile' = r.file
            /\ expected' = IF r.ok /\ r.v THEN expected \ {food_name} ELSE expected
            /\ last' = Called("remove_food", food_name, r.ok, r.v)
    /\ nOps' = nOps + 1
    /\ UNCHANGED <<dietFile, dietTemp, legacyTemp, backups, recapFile, clock, ss, peer, turns,
                   calcVars, objVars>>

\* confirm_diet_changes called on the files as they are
ConfirmDietChanges ==
    /\ nOps < MaxDataOps
    /\ \E fault \in CommitFaults :
         \E r \in {confirm_diet_changes(Files(dietFile, dietTemp, backups), clock, fault)} :
            /\ dietFile' = r.files.diet
            /\ dietTemp' = r.files.temp
            /\ backups' = r.files.backups
            /\ last' = Called("confirm_diet_changes", [fault |-> fault, backups |-> backups],
                              TRUE, [success |-> r.ok, msg |-> r.msg])
    /\ nOps' = nOps + 1
    /\ UNCHANGED <<legacyTemp, foodsFile, recapFile, clock, ss, peer, turns, calcVars, objVars, expected>>

\* save_day_data with the recap the caller computed from its plan
SaveDayData ==
    /\ nOps < MaxDataOps
    /\ \E day_name \in DataDayNames, day_data \in DayDatas, meal_plan \in CallerPlans(recapFile) :
         \E r \in {save_day_data(recapFile, day_name, day_data, meal_plan,
                                 calculate_weekly_recap(CatalogFull, meal_plan, DayNames))} :
            /\ recapFile' = r.file
            /\ last' = Called("save_day_data",
                              [day_name |-> day_name, day_data |-> day_data,
                               meal_plan |-> meal_plan],
                              r.ok, PyNone)
    /\ nOps' = nOps + 1
    /\ UNCHANGED <<dietFile, dietTemp, legacyTemp, backups, foodsFile, clock, ss, peer, turns,
                   calcVars, objVars, expected>>

NextData ==
    \/ LoadJsonFile \/ LoadFoods \/ LoadDiet \/ LoadDietTemp
    \/ LoadMealPlan \/ LoadDayData \/ LoadRecapData
    \/ AddFood \/ FoodsPageAdd \/ RemoveFood \/ SaveDayData \/ ConfirmDietChanges

SpecData == InitData /\ [][NextData]_vars

----------------------------------------------------------------------------
(* Claims about the calculator (SpecCalc) *)

IAbs(x) == IF x < 0 THEN 0 - x ELSE x

\* the float sum of a sequence of floats, left to right, from 0
RECURSIVE FloatSum(_)
FloatSum(xs) ==
    IF xs = <<>> THEN 0
    ELSE fadd(FloatSum(SubSeq(xs, 1, Len(xs) - 1)), xs[Len(xs)])

\* the sum of the magnitudes, exactly (integers)
RECURSIVE ExactAbsSum(_)
ExactAbsSum(xs) ==
    IF xs = <<>> THEN 0
    ELSE ExactAbsSum(SubSeq(xs, 1, Len(xs) - 1)) + IAbs(xs[Len(xs)])

\* what one food item contributes to one nutrient: the catalog value per
\* 100 g times (quantita / 100), and 0 for a name the catalog lacks
Contribution(foods_data, food_item, key) ==
    IF DictHas(foods_data.x, food_item.alimento.s)
    THEN fmul(DictGet(DictGet(foods_data.x, food_item.alimento.s).x, key).n,
              fdiv(food_item.quantita.n, Hundred))
    ELSE 0

Contributions(foods_data, food_items, key) ==
    [j \in 1..Len(food_items) |-> Contribution(foods_data, food_items[j], key)]

NutrientKeys == {"kcal", "carbs", "protein", "fat", "fiber"}

\* two floats that two summation orders of the same n terms xs can give:
\* each order rounds at most n - 1 times, so each is within
\* (n-1)u / (1 - (n-1)u) of the exact sum relative to the sum of magnitudes,
\* u = 2^-MantBits the unit roundoff
WithinRounding(a, b, xs) ==
    LET n1 == IF Len(xs) = 0 THEN 0 ELSE Len(xs) - 1
    IN  IAbs(a - b) * (MantLimit - n1) <= 2 * n1 * ExactAbsSum(xs)

\* C4: calculate_food_items_nutrition returns, for each nutrient, the sum over
\* the items, in list order, of catalog value x (quantita / 100); an item whose
\* name the catalog lacks contributes zero and the items after it are still
\* summed; kcal 165 / protein 31 at 150 g gives kcal 247.5 and protein 46.5.
C4_ItemsSum ==
    cOut.fn = "day" =>
        \A i \in 1..Len(cDay.meals) :
            LET items == cDay.meals[i].v.food_items
            IN  /\ \A key \in NutrientKeys :
                       cOut.meals[i][key] = FloatSum(Contributions(cFoods, items, key))
                /\ (items = <<Item("Pollo", 150)>> /\ cFoods # CatalogEmpty) =>
                       /\ cOut.meals[i].kcal = Dec(2475)
                       /\ cOut.meals[i].protein = Dec(465)

\* an unresolved item first, a resolved one after it: the total is the
\* resolved item's 247.5 kcal and 46.5 g protein
C4_Witness ==
    /\ cOut.fn = "day"
    /\ cFoods = CatalogPollo
    /\ Len(cDay.meals) = 2
    /\ cDay.meals[1].v.food_items = <<Item("Tofu", 100), Item("Pollo", 150)>>
    /\ cOut.meals[1].kcal = Dec(2475)
    /\ cOut.meals[1].protein = Dec(465)
    /\ cDay.meals[2].v.food_items = <<Item("Riso", 30)>>
    /\ cOut.meals[2] = NutritionValues0

\* C5 as stated: the day total (the sum of the per-meal totals) equals the
\* total of all the food items of all the meals summed as one list.
C5_DayEqualsDirect ==
    cOut.fn = "day" => cOut.day = cOut.direct

\* C5 as amended: the two totals agree up to floating-point rounding, nutrient
\* by nutrient, and are equal when every meal after the first holds at most
\* one food item.
C5_DayNearDirect ==
    cOut.fn = "day" =>
        \A key \in NutrientKeys :
            /\ WithinRounding(cOut.day[key], cOut.direct[key],
                              Contributions(cFoods, AllItems(cDay.meals, 1), key))
            /\ (\A i \in 2..Len(cDay.meals) : Len(cDay.meals[i].v.food_items) <= 1)
                   => cOut.day[key] = cOut.direct[key]

\* both meals hold two resolved items and the day has a total
C5_Witness ==
    /\ cOut.fn = "day"
    /\ cFoods = CatalogFull
    /\ Len(cDay.meals) = 2
    /\ cDay.meals[1].v.food_items = <<Item("Pollo", 150), Item("Riso", 30)>>
    /\ cDay.meals[2].v.food_items = <<Item("Riso", 30), Item("Pollo", 150)>>
    /\ cOut.day.kcal > 0
    /\ cOut.day.kcal = cOut.direct.kcal

\* the total of day number n: calculate_day_nutrition of the plan's day,
\* all-zero for a day the plan lacks
DayTotal(n) ==
    IF DictHas(cPlan.days, DayId(n))
    THEN calculate_day_nutrition(cFoods, DictGet(cPlan.days, DayId(n)))
    ELSE NutritionValues0

WeekOf(recap, w) == DictGet(DictGet(recap.x, "settimane").x, "settimana_" \o ToString(w))
WeekTotal(recap, w) == DictGet(WeekOf(recap, w).x, "totali")
\* the day numbers week w lists
WeekNumbers(recap, w) ==
    {n \in 1..total_days :
        \E j \in 1..Len(DictGet(WeekOf(recap, w).x, "giorni").x) :
            DictGet(WeekOf(recap, w).x, "giorni").x[j] = PyStr(DayId(n))}

\* the week totals are the sums of their seven days' totals, and the weeks
\* list disjoint days covering all 35
WeeksPartition(recap) ==
    /\ \A w \in 1..weeks :
          /\ WeekNumbers(recap, w) = ((w - 1) * 7 + 1)..(w * 7)
          /\ Len(DictGet(WeekOf(recap, w).x, "giorni").x) = 7
          /\ \A key \in NutrientKeys :
                 DictGet(WeekTotal(recap, w).x, key).n =
                     FloatSum([j \in 1..7 |-> DayTotal((w - 1) * 7 + j)[key]])
    /\ \A w, v \in 1..weeks :
           w # v => WeekNumbers(recap, w) \cap WeekNumbers(recap, v) = {}
    /\ UNION {WeekNumbers(recap, w) : w \in 1..weeks} = 1..total_days

WeekSum(recap, key) ==
    FloatSum([w \in 1..weeks |-> DictGet(WeekTotal(recap, w).x, key).n])
PeriodSum(key) == FloatSum([n \in 1..total_days |-> DayTotal(n)[key]])

\* C6 as stated: each week total is the sum of its seven days' totals (a day
\* the plan lacks counting as zero), the five weeks partition the 35 days, and
\* the sum of the five week totals equals the sum of the 35 day totals.
C6_WeeksSumToPeriod ==
    cOut.fn = "recap" =>
        /\ WeeksPartition(cOut.recap)
        /\ \A key \in NutrientKeys : WeekSum(cOut.recap, key) = PeriodSum(key)

\* C6 as amended: the same, the sum of the five week totals agreeing with the
\* sum of the 35 day totals up to floating-point rounding.
C6_WeeksNearPeriod ==
    cOut.fn = "recap" =>
        /\ WeeksPartition(cOut.recap)
        /\ \A key \in NutrientKeys :
               WithinRounding(WeekSum(cOut.recap, key), PeriodSum(key),
                              [n \in 1..total_days |-> DayTotal(n)[key]])

\* a plan that lacks day 1 and has days 7 and 8: week 1 and week 2 have a
\* total, week 3 has none
C6_Witness ==
    /\ cOut.fn = "recap"
    /\ cFoods = CatalogFull
    /\ ~DictHas(cPlan.days, DayId(1))
    /\ DictHas(cPlan.days, DayId(7))
    /\ DictHas(cPlan.days, DayId(8))
    /\ DictGet(WeekTotal(cOut.recap, 1).x, "kcal").n > 0
    /\ DictGet(WeekTotal(cOut.recap, 2).x, "kcal").n > 0
    /\ WeekTotal(cOut.recap, 3) = NutritionValues_to_dict(NutritionValues0)

----------------------------------------------------------------------------
(* The staging file, the commit, the upload and the backups (Spec) *)

\* the Diet shape: a mapping  meal name -> list of {alimento, quantita}
HasDietShape(data) ==
    /\ data.t = "dict"
    /\ \A i \in 1..Len(data.x) :
          /\ data.x[i].v.t = "list"
          /\ \A j \in 1..Len(data.x[i].v.x) :
                /\ data.x[i].v.x[j].t = "dict"
                /\ DictHas(data.x[i].v.x[j].x, "alimento")
                /\ DictHas(data.x[i].v.x[j].x, "quantita")

\* an uploaded file that is JSON and has the Diet shape
WellFormed(file) == file.st = "json" /\ HasDietShape(file.data)

\* the last interaction was a commit / an upload
Committed == last.op = "confirm"
Uploaded == last.op = "upload"

\* C1: after diet edits were staged and "Reset Dieta" was pressed, the working
\* diet is the committed diet, the committed file is as it was and the staging
\* file data/dieta_temp.json is gone.
C1_DiscardRemovesStaging ==
    (last.op = "reset" /\ last.ok /\ exists(last.pre.temp)) =>
        /\ JsonFile(ss.dieta_edit) = last.pre.diet
        /\ dietFile = last.pre.diet
        /\ ~exists(dietTemp)

\* C2: when confirm_diet_changes succeeds, a staging file existed, the
\* committed file has the staged content, the backup it names holds the
\* content committed before, and the staging file is gone.
C2_CommitInstallsStaged ==
    (Committed /\ last.ok) =>
        /\ exists(last.pre.temp)
        /\ dietFile = last.pre.temp
        /\ DictHas(backups, last.msg)
        /\ DictGet(backups, last.msg) = last.pre.diet
        /\ ~exists(dietTemp)

\* a commit succeeded that changed the committed diet
C2_Witness ==
    /\ Committed /\ last.ok
    /\ last.pre.temp # last.pre.diet
    /\ dietFile # last.pre.diet

\* C3: an upload of a file that is not JSON or has not the Diet shape reports
\* failure and leaves the committed file, the staging file and the backups as
\* they were.
C3_MalformedUploadRejected ==
    (Uploaded /\ ~WellFormed(last.file)) =>
        /\ ~last.ok
        /\ Files(dietFile, dietTemp, backups) = last.pre

\* C7: no interaction removes a backup or changes its content, and a
\* successful commit or upload adds a backup under a name no earlier backup has.
C7_BackupsOnlyGrow ==
    /\ \A i \in 1..Len(last.pre.backups) :
          /\ DictHas(backups, last.pre.backups[i].k)
          /\ DictGet(backups, last.pre.backups[i].k) = last.pre.backups[i].v
    /\ ((Committed \/ Uploaded) /\ last.ok) =>
          /\ ~DictHas(last.pre.backups, last.msg)
          /\ DictHas(backups, last.msg)

\* C8: when an upload succeeds, the backup it names holds the content
\* committed before, the committed file holds the uploaded diet, and there is
\* no staging file.
C8_UploadReplaces ==
    (Uploaded /\ last.ok) =>
        /\ DictHas(backups, last.msg)
        /\ DictGet(backups, last.msg) = last.pre.diet
        /\ load_diet(dietFile).ok
        /\ load_diet(dietFile) = Diet_from_dict(json_loads(last.file).v)
        /\ ~exists(dietTemp)

\* a well-formed diet was uploaded over another committed diet while edits
\* were staged
C8_Witness ==
    /\ Uploaded /\ last.ok
    /\ WellFormed(last.file)
    /\ exists(last.pre.temp)
    /\ dietFile # last.pre.diet

\* C9: when a commit or an upload reports failure because the backup, the
\* write or the move raised, the committed file has the content it had, and
\* after a commit the staging file is still there with its content.
C9_FailureCommitsNothing ==
    ((Committed \/ Uploaded) /\ ~last.ok /\ last.msg \in {"backup", "open", "write", "move"}) =>
        /\ dietFile = last.pre.diet
        /\ Committed => (exists(dietTemp) /\ dietTemp = last.pre.temp)

\* the names of the meals of a day of the session's meal plan
MealNamesOf(day_data) == {day_data.x[j].k : j \in 1..Len(day_data.x)}

\* C10: the session's meal plan has exactly the 35 entries Giorno_1 ..
\* Giorno_35, and the meal names of every day are those of the configured list.
C10_PlanFollowsMealList ==
    /\ Len(ss.meal_plan.x) = total_days
    /\ {ss.meal_plan.x[i].k : i \in 1..Len(ss.meal_plan.x)} = {DayId(n) : n \in 1..total_days}
    /\ \A i \in 1..Len(ss.meal_plan.x) :
          MealNamesOf(ss.meal_plan.x[i].v) =
              {load_meals_list.x[j].s : j \in 1..Len(load_meals_list.x)}

----------------------------------------------------------------------------
(* The session's meal plan (Spec) *)

\* a session has just started
Started == last.op \in {"start", "session"} /\ last.ok

\* the combined document of recap.json holds a meal_plan
HasStoredPlan ==
    /\ exists(recapFile)
    /\ load_complete_data(recapFile).ok
    /\ load_complete_data(recapFile).v.t = "dict"
    /\ DictHas(load_complete_data(recapFile).v.x, "meal_plan")

\* the plan of 35 days, each the diet document meal for meal
DerivedPlan(diet_data) ==
    PyDict([n \in 1..total_days |-> [k |-> DayId(n), v |-> diet_data]])

\* C11: when a session has started, its working diet is the staged diet if a
\* staging file exists and the committed diet otherwise; its meal plan is the
\* meal_plan of recap.json, unchanged, when recap.json holds one, and otherwise
\* the plan of 35 days each equal to the working diet meal for meal.
C11_PlanStoredOrDerived ==
    Started =>
        /\ JsonFile(ss.dieta_edit) = (IF exists(dietTemp) THEN dietTemp ELSE dietFile)
        /\ ss.meal_plan = (IF HasStoredPlan
                           THEN DictGet(load_complete_data(recapFile).v.x, "meal_plan")
                           ELSE DerivedPlan(ss.dieta_edit))

\* a session started on a persisted plan that is not the plan its working diet
\* would give
C11_Witness ==
    /\ last.op = "session" /\ last.ok
    /\ HasStoredPlan
    /\ ss.meal_plan # DerivedPlan(ss.dieta_edit)

----------------------------------------------------------------------------
(* The days of a plan as objects (SpecObj) *)

\* the last operation edited a food-item list or a food item
Edited == last.op \in {"add", "remove", "set"}

\* the value an owner had before the last operation
Before(owner) ==
    IF owner = "diet" THEN last.before.diet ELSE DictGet(last.before.days, owner)

\* every owner of objects: the diet and each day of the plan
AllOwners == {"diet"} \cup {oPlan.days[i].k : i \in 1..Len(oPlan.days)}

\* C12: after a food item was added to, removed from or changed in one day of
\* the plan (or the diet), every other day and the diet have the meals they
\* had; and no two days, and no day and the diet, hold the same Meal or
\* FoodItem object.
C12_DaysIndependent ==
    /\ Edited =>
          \A other \in AllOwners \ {last.owner} :
              \A meals \in MealsOfOwner(other) : MealsValue(heap, meals) = Before(other)
    /\ \A a, b \in AllOwners :
          a # b =>
              \A ma \in MealsOfOwner(a), mb \in MealsOfOwner(b) :
                  ObjectsOf(heap, ma) \cap ObjectsOf(heap, mb) = {}

\* right after reset_all_to_diet a food item was added to Giorno_1: it differs
\* from Giorno_2 and from the diet, which are as they were
C12_Witness ==
    /\ last.op = "add" /\ last.owner = DayId(1)
    /\ Len(oPlan.days) = total_days
    /\ MealsValue(heap, DictGet(oPlan.days, DayId(1)).meals) # Before(DayId(1))
    /\ MealsValue(heap, DictGet(oPlan.days, DayId(2)).meals) = Before(DayId(1))
    /\ MealsValue(heap, oDiet.meals) = Before(DayId(1))

----------------------------------------------------------------------------
(* Staged edits and the committed diet (Spec) *)

\* C13: staging an edit (a diet-page edit, add or delete) leaves the committed
\* diet file and the backups as they were, and the committed diet file changes
\* only through a commit or an upload that succeeds.
C13_CommittedChangesOnlyOnSuccess ==
    /\ last.op = "stage" => (dietFile = last.pre.diet /\ backups = last.pre.backups)
    /\ dietFile # last.pre.diet => ((Committed \/ Uploaded) /\ last.ok)

----------------------------------------------------------------------------
(* The catalog, the loads and the combined document (SpecData) *)

\* the place of a food name in the order of sorted()
Place(name) == CHOOSE i \in 1..Len(Alphabetical) : Alphabetical[i] = name

\* the keys come in strictly ascending order
Ascending(keys) ==
    \A i, j \in 1..Len(keys) : i < j => Place(keys[i]) < Place(keys[j])

LoadOps == {"load_json_file", "load_foods", "load_diet", "load_diet_temp",
            "load_meal_plan", "load_day_data", "load_recap_data"}
RecapLoads == {"load_meal_plan", "load_day_data", "load_recap_data"}

\* C15: a load of a file that does not exist returns, and returns an empty
\* result: load_json_file {}, load_foods an empty catalog, load_diet (and
\* load_diet_temp, with no staging file either) a diet without meals,
\* load_meal_plan / load_day_data / load_recap_data None; and a load leaves
\* every file as it was.
C15_MissingFileLoadsEmpty ==
    /\ last.op \in LoadOps => DataFiles = last.pre
    /\ (last.op = "load_json_file" /\ ~exists(DataFiles[last.arg])) =>
          (last.ok /\ last.v = PyDict(<<>>))
    /\ (last.op = "load_foods" /\ ~exists(foodsFile)) => (last.ok /\ last.v = <<>>)
    /\ (last.op = "load_diet" /\ ~exists(dietFile)) => (last.ok /\ last.v = Diet(<<>>))
    /\ (last.op = "load_diet_temp" /\ ~exists(dietTemp) /\ ~exists(dietFile)) =>
          (last.ok /\ last.v = [diet |-> Diet(<<>>), is_temp |-> FALSE])
    /\ (last.op \in RecapLoads /\ ~exists(recapFile)) => (last.ok /\ last.v = PyNone)

\* the diet was loaded with no diet file, while the other files exist
C15_Witness ==
    /\ last.op = "load_diet" /\ last.ok
    /\ ~exists(dietFile)
    /\ last.v.meals = <<>>
    /\ foodsFile.st = "json" /\ recapFile.st = "json"

\* C16: a load of an existing file that is not valid JSON raises: no value is
\* returned, load_diet_temp with such a staging file does not fall back to
\* the committed diet, and every file is left as it was.
C16_CorruptFileLoadRaises ==
    /\ last.op \in LoadOps => DataFiles = last.pre
    /\ (last.op = "load_json_file" /\ DataFiles[last.arg].st = "corrupt") => ~last.ok
    /\ (last.op = "load_foods" /\ foodsFile.st = "corrupt") => ~last.ok
    /\ (last.op = "load_diet" /\ dietFile.st = "corrupt") => ~last.ok
    /\ (last.op = "load_diet_temp" /\ dietTemp.st = "corrupt") => ~last.ok
    /\ (last.op = "load_diet_temp" /\ ~exists(dietTemp) /\ dietFile.st = "corrupt") => ~last.ok
    /\ (last.op \in RecapLoads /\ recapFile.st = "corrupt") => ~last.ok

\* load_diet_temp raised on a staging file cut short while the committed diet
\* is a valid file
C16_Witness ==
    /\ last.op = "load_diet_temp" /\ ~last.ok
    /\ dietTemp.st = "corrupt"
    /\ dietFile.st = "json" /\ load_diet(dietFile).ok

\* a == b of Python: dicts are equal when they hold equal values under the
\* same keys, in any order
RECURSIVE PyEq(_, _)
PyEq(a, b) ==
    IF a.t # b.t THEN FALSE
    ELSE IF a.t = "dict"
    THEN /\ Len(a.x) = Len(b.x)
         /\ \A i \in 1..Len(a.x) :
               /\ DictHas(b.x, a.x[i].k)
               /\ PyEq(a.x[i].v, DictGet(b.x, a.x[i].k))
    ELSE IF a.t = "list"
    THEN /\ Len(a.x) = Len(b.x)
         /\ \A i \in 1..Len(a.x) : PyEq(a.x[i], b.x[i])
    ELSE a = b

\* save_day_data returned
SavedDay == last.op = "save_day_data" /\ last.ok

\* the days other than the one saved
OtherDays == {DayId(n) : n \in 1..total_days} \ {last.arg.day_name}

\* what load_day_data gives for a day of a plan: its document, None without
DayOfPlan(meal_plan, day_name) ==
    IF DictHas(meal_plan.days, day_name)
    THEN Day_to_dict(DictGet(meal_plan.days, day_name))
    ELSE PyNone

\* C19 as stated: after save_day_data(d, data, plan, recap), load_day_data(d)
\* returns data and load_day_data of every other day returns what it returned
\* before the call.
C19_OnlyThatDayChanges ==
    SavedDay =>
        /\ load_day_data(recapFile, last.arg.day_name).ok
        /\ PyEq(load_day_data(recapFile, last.arg.day_name).v, last.arg.day_data)
        /\ \A other \in OtherDays :
               load_day_data(last.pre.recap, other).ok =>
                   load_day_data(recapFile, other) = load_day_data(last.pre.recap, other)

\* C19 as amended: load_day_data(d) returns data, and load_day_data of every
\* other day returns that day of the plan passed in (None when the plan lacks
\* it), which is what it returned before the call when the plan passed in is
\* the plan of the combined document.
C19_OtherDaysFromPlanPassed ==
    SavedDay =>
        /\ load_day_data(recapFile, last.arg.day_name).ok
        /\ PyEq(load_day_data(recapFile, last.arg.day_name).v, last.arg.day_data)
        /\ \A other \in OtherDays :
               load_day_data(recapFile, other) = Ok(DayOfPlan(last.arg.meal_plan, other))
        /\ load_meal_plan(last.pre.recap) = Ok(last.arg.meal_plan) =>
               \A other \in OtherDays :
                   load_day_data(recapFile, other) = load_day_data(last.pre.recap, other)

\* Giorno_1 was saved with new data into the plan loaded from recap.json:
\* Giorno_2 is still there, as it was
C19_Witness ==
    /\ SavedDay
    /\ last.arg.day_name = DayId(1)
    /\ load_meal_plan(last.pre.recap) = Ok(last.arg.meal_plan)
    /\ load_day_data(recapFile, DayId(1)) # load_day_data(last.pre.recap, DayId(1))
    /\ load_day_data(recapFile, DayId(2)).v # PyNone
    /\ load_day_data(recapFile, DayId(2)) = load_day_data(last.pre.recap, DayId(2))

----------------------------------------------------------------------------
(* The variation, its marker and the addition (SpecCalc) *)

\* C17 as stated: calculate_variation_percentage(actual, target) is 0 when
\* both are 0, 100 when only the target is 0, 0 when actual = target, and
\* otherwise |actual - target| / target x 100; it is never negative for a
\* non-negative target.
C17_VariationFormula ==
    cOut.fn = "variation" =>
        LET actual == cOut.actual
            target == cOut.target
        IN  /\ (target = 0 /\ actual = 0) => cOut.v = 0
            /\ (target = 0 /\ actual # 0) => cOut.v = Hundred
            /\ actual = target => cOut.v = 0
            /\ (target # 0 /\ actual # target) =>
                  cOut.v = fmul(fdiv(IAbs(fadd(actual, 0 - target)), target), Hundred)
            /\ target >= 0 => cOut.v >= 0

\* C17 as amended: calculate_variation_percentage(actual, target) is 0 when
\* both are 0, 100 when only the target is 0, 0 when actual = target, and
\* otherwise |actual - target| / |target| x 100; it is never negative.
C17_VariationOfMagnitudes ==
    cOut.fn = "variation" =>
        LET actual == cOut.actual
            target == cOut.target
        IN  /\ (target = 0 /\ actual = 0) => cOut.v = 0
            /\ (target = 0 /\ actual # 0) => cOut.v = Hundred
            /\ actual = target => cOut.v = 0
            /\ (target # 0 /\ actual # target) =>
                  cOut.v = fmul(fdiv(IAbs(fadd(actual, 0 - target)), IAbs(target)), Hundred)
            /\ cOut.v >= 0

\* 100 kcal against a target of -100 kcal: a variation of 200
C17_Witness ==
    /\ cOut.fn = "variation"
    /\ cOut.actual = Num(100) /\ cOut.target = 0 - Num(100)
    /\ cOut.v = Num(200)

\* C18: get_variation_color_class gives every variation exactly one marker:
\* the on-target marker iff the variation is <= 10, the warning marker iff it
\* is > 10 and <= 25, the off-target marker iff it is > 25.
C18_Bands ==
    cOut.fn = "color" =>
        /\ cOut.v \in {"green", "yellow", "red"}
        /\ cOut.v = "green" <=> cOut.variation <= Num(10)
        /\ cOut.v = "yellow" <=> (cOut.variation > Num(10) /\ cOut.variation <= Num(25))
        /\ cOut.v = "red" <=> cOut.variation > Num(25)

\* a variation of exactly 25 got the warning marker
C18_Witness ==
    /\ cOut.fn = "color"
    /\ cOut.variation = Num(25)
    /\ cOut.v = "yellow"

\* the sum of two values is, per nutrient, the float nearest to the sum
ComponentWise(sum, x, y) ==
    \A key \in NutrientKeys : sum[key] = fl(x[key] + y[key], 1)

\* no addition of x + y + z has to round the nutrient
ExactSums(x, y, z, key) ==
    /\ fl(x[key] + y[key], 1) = x[key] + y[key]
    /\ fl(y[key] + z[key], 1) = y[key] + z[key]
    /\ fl(x[key] + y[key] + z[key], 1) = x[key] + y[key] + z[key]

\* C20 as stated: NutritionValues addition is the component-wise sum of the
\* five nutrients, commutative and associative, and the all-zero value is its
\* identity.
C20_AddIsMonoid ==
    cOut.fn = "add" =>
        /\ ComponentWise(cOut.xy, cOut.x, cOut.y)
        /\ cOut.xy = cOut.yx
        /\ cOut.x0 = cOut.x /\ cOut.zero_x = cOut.x
        /\ cOut.xy_z = cOut.x_yz

\* C20 as amended: the addition is the component-wise sum, commutative, with
\* the all-zero value as identity, and associative up to rounding:
\* (x + y) + z and x + (y + z) differ per nutrient by at most
\* 4u / (1 - 2u) times |x| + |y| + |z|, and are equal when no sum rounds.
C20_AddAssociatesUpToRounding ==
    cOut.fn = "add" =>
        /\ ComponentWise(cOut.xy, cOut.x, cOut.y)
        /\ cOut.xy = cOut.yx
        /\ cOut.x0 = cOut.x /\ cOut.zero_x = cOut.x
        /\ \A key \in NutrientKeys :
              /\ WithinRounding(cOut.xy_z[key], cOut.x_yz[key],
                                <<cOut.x[key], cOut.y[key], cOut.z[key]>>)
              /\ ExactSums(cOut.x, cOut.y, cOut.z, key) =>
                    cOut.xy_z[key] = cOut.x_yz[key]

\* three values whose sum depends on the grouping, while their sums by pairs
\* commute
C20_Witness ==
    /\ cOut.fn = "add"
    /\ cOut.xy_z # cOut.x_yz
    /\ cOut.xy = cOut.yx
    /\ cOut.xy # cOut.x /\ cOut.xy # cOut.y

----------------------------------------------------------------------------
(* The round trip of the documents (SpecCalc) *)

\* {alimento: string, quantita: number} and nothing else
DocumentedItem(item) ==
    /\ item.t = "dict" /\ Len(item.x) = 2
    /\ DictHas(item.x, "alimento") /\ DictGet(item.x, "alimento").t = "str"
    /\ DictHas(item.x, "quantita") /\ DictGet(item.x, "quantita").t = "num"

\* the documented shape of a diet: meal name -> array of items
DocumentedDiet(data) ==
    /\ data.t = "dict"
    /\ \A i \in 1..Len(data.x) :
          /\ data.x[i].v.t = "list"
          /\ \A j \in 1..Len(data.x[i].v.x) : DocumentedItem(data.x[i].v.x[j])

\* day id -> diet document
DocumentedPlan(data) ==
    /\ data.t = "dict"
    /\ \A i \in 1..Len(data.x) : DocumentedDiet(data.x[i].v)

\* the same keys in the same order, the values equal as Python values
SameInOrder(a, b) ==
    /\ a.t = "dict" /\ b.t = "dict"
    /\ DictKeys(a.x) = DictKeys(b.x)
    /\ \A i \in 1..Len(a.x) : PyEq(a.x[i].v, b.x[i].v)

\* C21: for every diet document x of the documented shape Diet.from_dict(x)
\* holds the meals of x in their order with the food items (name and
\* quantity) of x in their order, save_diet followed by load_diet yields that
\* diet again, and Diet.from_dict(x).to_dict() = x; likewise
\* MealPlan.from_dict(y).to_dict() = y, with the days in their order.
C21_RoundTrip ==
    cOut.fn = "roundtrip" =>
        /\ DocumentedDiet(cOut.x) =>
              /\ cOut.diet.ok
              /\ DictKeys(cOut.diet.v.meals) = DictKeys(cOut.x.x)
              /\ \A i \in 1..Len(cOut.x.x) :
                    LET items == cOut.diet.v.meals[i].v.food_items
                        listed == cOut.x.x[i].v.x
                    IN  /\ Len(items) = Len(listed)
                        /\ \A j \in 1..Len(listed) :
                              /\ items[j].alimento = DictGet(listed[j].x, "alimento")
                              /\ items[j].quantita = DictGet(listed[j].x, "quantita")
              /\ cOut.loaded = cOut.diet
              /\ SameInOrder(cOut.diet_dict, cOut.x)
        /\ DocumentedPlan(cOut.y) =>
              /\ cOut.meal_plan.ok
              /\ DictKeys(cOut.plan_dict.x) = DictKeys(cOut.y.x)
              /\ \A i \in 1..Len(cOut.y.x) :
                    SameInOrder(cOut.plan_dict.x[i].v, cOut.y.x[i].v)

\* a diet whose second meal holds two items, and a plan listing Giorno_2
\* before Giorno_1 with items whose keys come in the other order
C21_Witness ==
    /\ cOut.fn = "roundtrip"
    /\ DocumentedDiet(cOut.x) /\ DocumentedPlan(cOut.y)
    /\ Len(cOut.x.x) = 2 /\ Len(cOut.x.x[2].v.x) = 2
    /\ cOut.x.x[2].v.x[1] # cOut.x.x[2].v.x[2]
    /\ DictKeys(cOut.y.x) = <<DayId(2), DayId(1)>>
    /\ cOut.plan_dict # cOut.y
    /\ cOut.loaded.ok

----------------------------------------------------------------------------
(* The session and the files (Spec) *)

\* C22: between interactions the session flag dieta_da_temp is true exactly
\* when the staging file data/dieta_temp.json exists (so the Confirm button is
\* offered whenever staged edits are on disk, and a session started after a
\* discard finds no staging file and loads the committed diet).
C22_FlagIffStagingFile ==
    ss.dieta_da_temp <=> exists(dietTemp)

\* C23: in every reachable session state st.session_state.dieta_edit is a diet
\* document (meal name -> list of {alimento, quantita}) that Diet.from_dict
\* accepts, also right after a successful upload, a commit or a discard.
C23_SessionDietIsDocument ==
    /\ HasDietShape(ss.dieta_edit)
    /\ Diet_from_dict(ss.dieta_edit).ok

\* C24: at session start the working diet is the staged diet, flagged as
\* staged, when the staging file exists, and the committed diet, flagged as
\* not staged, otherwise; nothing but the existence of the staging file
\* decides.
C24_SessionStartsFromStagedOrCommitted ==
    Started =>
        /\ ss.dieta_da_temp = exists(dietTemp)
        /\ exists(dietTemp) => ss.dieta_edit = dietTemp.data
        /\ ~exists(dietTemp) =>
              ss.dieta_edit = (IF exists(dietFile) THEN dietFile.data ELSE PyDict(<<>>))

\* a session started while a staging file differing from the committed diet
\* exists
C24_Witness ==
    /\ last.op = "session" /\ last.ok
    /\ exists(dietTemp) /\ exists(dietFile)
    /\ dietTemp.data # dietFile.data
    /\ ss.dieta_da_temp
    /\ ss.dieta_edit = dietTemp.data

\* the last interaction wrote the combined document
Persisted == last.op \in {"day", "recap_reset"}

\* the two parts of the combined document
StoredMealPlan == DictGet(recapFile.data.x, "meal_plan")
StoredRecapData == DictGet(recapFile.data.x, "recap")

\* C25: after every tracker operation that persists and after the recap
\* page's RESET the combined document holds the session's meal plan, and
\* whenever the document exists its recap is calculate_weekly_recap of the
\* meal plan it holds: the stored recap is never stale.
C25_RecapNeverStale ==
    /\ Persisted =>
          /\ recapFile.st = "json"
          /\ StoredMealPlan = ss.meal_plan
    /\ exists(recapFile) =>
          /\ recapFile.st = "json"
          /\ MealPlan_from_dict(StoredMealPlan).ok
          /\ StoredRecapData =
                calculate_weekly_recap(get_foods_data_dict(foodsFile),
                                       MealPlan_from_dict(StoredMealPlan).v, DayNames)

\* a day edit was saved: Giorno_1 now differs from Giorno_2 in the document,
\* and so do their totals in the recap
C25_Witness ==
    /\ last.op = "day"
    /\ exists(recapFile)
    /\ DictGet(StoredMealPlan.x, DayId(1)) # DictGet(StoredMealPlan.x, DayId(2))
    /\ DictGet(StoredRecapData.x, DayId(1)) # DictGet(StoredRecapData.x, DayId(2))

\* the last interaction was the RESET of the recap page
WasReset == last.op = "recap_reset"

\* C26: after the recap page's RESET the meal plan, in the session and in the
\* combined document, has exactly the 35 days Giorno_1..Giorno_35, each equal
\* meal for meal to the session's working diet (staged edits included); the
\* earlier edits of a day and any other entries are gone.
C26_ResetProjectsWorkingDiet ==
    WasReset =>
        /\ ss.meal_plan.t = "dict"
        /\ DictKeys(ss.meal_plan.x) = DayNames
        /\ \A i \in 1..Len(ss.meal_plan.x) : ss.meal_plan.x[i].v = ss.dieta_edit
        /\ recapFile.st = "json"
        /\ StoredMealPlan = ss.meal_plan

\* RESET pressed with a staged edit in the session and a plan whose Giorno_1
\* had been edited: Giorno_1 is the staged diet again
C26_Witness ==
    /\ WasReset
    /\ ss.dieta_da_temp /\ ss.dieta_edit # dietFile.data
    /\ DictGet(ss.meal_plan.x, DayId(1)) = ss.dieta_edit
    /\ last.plan = MealPlan_to_dict(EarlierPlan)
    /\ DictGet(last.plan.x, DayId(1)) # DictGet(last.plan.x, DayId(2))
    /\ DictGet(ss.meal_plan.x, DayId(1)) # DictGet(last.plan.x, DayId(1))
    /\ Len(ss.meal_plan.x) = total_days

----------------------------------------------------------------------------
(* Claims about the catalog and the commit (SpecData) *)

\* the foods a catalog file loads to
StoredFoods(file) == load_foods(file).v

\* C27: the add form submitted with an empty name, or with a name the catalog
\* holds, adds nothing and leaves foods.json as it was; and whatever the form
\* does, every food the catalog held before is still there with the values it
\* had.
C27_FormKeepsStoredEntries ==
    last.op = "foods_form" =>
        /\ (last.arg.name = "" \/ last.arg.name \in CatalogNames(last.pre.foods)) =>
              (~last.v.added /\ foodsFile = last.pre.foods)
        /\ last.ok =>
              \A n \in CatalogNames(last.pre.foods) :
                 /\ n \in CatalogNames(foodsFile)
                 /\ DictGet(StoredFoods(foodsFile), n) = DictGet(StoredFoods(last.pre.foods), n)

\* Tofu was added through the form, then the form was submitted with the name
\* Pollo and values other than the stored ones, and was turned down
C27_Witness ==
    /\ last.op = "foods_form" /\ last.ok /\ ~last.v.added
    /\ last.v.msg = "Alimento già esistente!"
    /\ last.arg.name = "Pollo"
    /\ last.arg # DictGet(StoredFoods(foodsFile), "Pollo")
    /\ CatalogNames(foodsFile) = {"Pollo", "Riso", "Tofu"}

\* C28: remove_food of "-----" returns False and leaves foods.json as it was,
\* whatever the file holds; of a name a readable catalog lacks, it returns
\* False and writes nothing; of any other name the catalog holds, it returns
\* True, and the catalog then holds the other foods and no more, each with the
\* values it had. (When foods.json cannot be read the call raises for every
\* name but "-----", and writes nothing.)
C28_RemoveSparesProtected ==
    last.op = "remove_food" =>
        /\ last.arg = "-----" =>
              (last.ok /\ last.v = FALSE /\ foodsFile = last.pre.foods)
        /\ (last.pre.foods.st # "corrupt" /\ last.arg \notin CatalogNames(last.pre.foods)) =>
              (last.ok /\ last.v = FALSE /\ foodsFile = last.pre.foods)
        /\ (last.arg # "-----" /\ last.arg \in CatalogNames(last.pre.foods)) =>
              /\ last.ok /\ last.v = TRUE
              /\ CatalogNames(foodsFile) = CatalogNames(last.pre.foods) \ {last.arg}
              /\ \A n \in CatalogNames(foodsFile) :
                    /\ DictGet(foodsFile.data.x, n) = DictGet(last.pre.foods.data.x, n)
                    /\ DictGet(StoredFoods(foodsFile), n) = DictGet(StoredFoods(last.pre.foods), n)
        /\ ~last.ok => foodsFile = last.pre.foods

\* "-----" was added to the catalog of Pollo and Riso, and its removal was
\* asked for and turned down
C28_Witness ==
    /\ last.op = "remove_food" /\ last.arg = "-----"
    /\ last.ok /\ last.v = FALSE
    /\ CatalogNames(foodsFile) = {"-----", "Pollo", "Riso"}
    /\ foodsFile = last.pre.foods

\* C29: confirm_diet_changes called with no staging file returns
\* (False, "Nessuna modifica da confermare"), makes no backup and leaves the
\* committed diet, and every other file, as it was.
C29_NothingToConfirm ==
    (last.op = "confirm_diet_changes" /\ ~exists(last.pre.temp)) =>
        /\ last.ok
        /\ last.v = [success |-> FALSE, msg |-> "Nessuna modifica da confermare"]
        /\ backups = last.arg.backups
        /\ DataFiles = last.pre

\* the staged diet was committed, and the commit was asked for once more: the
\* one backup and the committed diet are those the first commit left
C29_Witness ==
    /\ last.op = "confirm_diet_changes" /\ ~exists(last.pre.temp)
    /\ last.arg.fault = "none"
    /\ Len(backups) = 1
    /\ backups[1].v = save_diet(InitialDiet)
    /\ dietFile = save_diet(StagedDiet)

----------------------------------------------------------------------------
(* Two sessions on the tracker page (SpecTwo) *)

\* the days other than the one the running session edits
DaysNotEdited == {DayId(n) : n \in 1..total_days} \ {ss.editing_day.s}

\* the meal plan of a combined document
PlanIn(file) == DictGet(file.data.x, "meal_plan")

\* C30: a tracker save writes the whole meal plan the saving session holds:
\* the document then holds that session's plan, every day but the edited one
\* as the session held it before, whatever recap.json held. As long as one
\* session alone has acted, every day but the edited one is also stored as it
\* was stored before: no persisted edit is lost.
C30_SaveWritesSessionPlan ==
    last.op = "day" =>
        /\ recapFile.st = "json"
        /\ StoredMealPlan = ss.meal_plan
        /\ \A d \in DaysNotEdited :
              DictGet(StoredMealPlan.x, d) = DictGet(last.plan.x, d)
        /\ (turns = 0 /\ exists(last.stored)) =>
              \A d \in DaysNotEdited :
                 DictGet(StoredMealPlan.x, d) = DictGet(PlanIn(last.stored).x, d)

\* both sessions loaded the plan of the initial diet; one edited Giorno_1 and
\* saved, then the other edited Giorno_35 and saved: Giorno_1 is stored as
\* first loaded again, and the first session's edit is in its memory only
C30_Witness ==
    /\ last.op = "day" /\ turns = 1
    /\ ss.editing_day = PyStr(DayId(35)) /\ peer.editing_day = PyStr(DayId(1))
    /\ exists(last.stored)
    /\ DictGet(PlanIn(last.stored).x, DayId(1)) = DictGet(peer.meal_plan.x, DayId(1))
    /\ DictGet(PlanIn(last.stored).x, DayId(1)) # Diet_to_dict(InitialDiet)
    /\ DictGet(StoredMealPlan.x, DayId(1)) = Diet_to_dict(InitialDiet)
    /\ DictGet(StoredMealPlan.x, DayId(35)) # Diet_to_dict(InitialDiet)

====
